---- MODULE Spec2Model ----
(***************************************************************************)
(* A model of the neko interpreter: the semantic analyzer                  *)
(* (src/src/semantic_analyzer.rs) with its scope chain                     *)
(* (src/src/symbol_table.rs), the run-time environments                    *)
(* (src/src/enviroment.rs) and the tree-walking evaluator                  *)
(* (src/src/interpreter.rs).  One Interpreter value lives across inputs;   *)
(* each action is one call of interpret or interpret_with_option.          *)
(*                                                                         *)
(* Representation.  Rc<RefCell<..>> handles are indices into a heap        *)
(* (a sequence); 0 is Option::None.  Option<T> elsewhere is a sequence of  *)
(* length 0 or 1.  A HashMap is a function on its finite key set.  f64 is  *)
(* restricted to the integers, NaN and the infinities: an arithmetic result *)
(* outside them is not defined in the model (TLC stops there), and no      *)
(* input below produces one.                                               *)
(***************************************************************************)
EXTENDS Integers, Sequences, FiniteSets, TLC

(***************************************************************************)
(* AST nodes (src/src/ast.rs) and operator tokens (src/src/token.rs).      *)
(***************************************************************************)
Operator(op) == [t |-> "Operator", v |-> op]
Keyword(kw) == [t |-> "Keyword", v |-> kw]

Number(num) == [type |-> "Number", num |-> num]
String(string) == [type |-> "String", string |-> string]
Boolean(boolean) == [type |-> "Boolean", boolean |-> boolean]
Identifier(iden) == [type |-> "Identifier", iden |-> iden]
NoneNode == [type |-> "None"]
Compound(nodes) == [type |-> "Compound", nodes |-> nodes]
Block(nodes) == [type |-> "Block", nodes |-> nodes]
Expression(node) == [type |-> "Expression", node |-> node]
Lambda(id, params, block) ==
    [type |-> "Lambda", id |-> id, params |-> params, block |-> block]
FunctionDecleration(name, params, block) ==
    [type |-> "FunctionDecleration", name |-> name, params |-> params, block |-> block]
FunctionCall(function, arguments) ==
    [type |-> "FunctionCall", function |-> function, arguments |-> arguments]
\* value is Option<Node>: <<>> or <<node>>
VariabeDecleration(identifier, value) ==
    [type |-> "VariabeDecleration", identifier |-> identifier, value |-> value]
AssignmentExpr(identifier, value) ==
    [type |-> "AssignmentExpr", identifier |-> identifier, value |-> value]
BinOperator(left, operator, right) ==
    [type |-> "BinOperator", left |-> left, operator |-> operator, right |-> right]
UnaryOperator(operator, expression) ==
    [type |-> "UnaryOperator", operator |-> operator, expression |-> expression]

(***************************************************************************)
(* Errors (src/src/misc.rs) and results.                                   *)
(***************************************************************************)
NekoError(kind, msg) == [kind |-> kind, msg |-> msg]

\* Result<_, NekoError> together with the interpreter state it leaves.
Ok(st, val) == [st |-> st, ok |-> TRUE, val |-> val]
Err(st, err) == [st |-> st, ok |-> FALSE, val |-> err]

(***************************************************************************)
(* InterpreterOptions (src/src/interpreter_option.rs).                     *)
(***************************************************************************)
InterpreterOptions_new == [disable_calls |-> FALSE, disable_decleration |-> FALSE]
InterpreterOptions_all == [disable_calls |-> TRUE, disable_decleration |-> TRUE]

\* Mutant: declarations are performed whatever the option says.
decleration_enabled_always(options) == TRUE

\* if !self.interpreter_options.disable_decleration
decleration_enabled(options) == ~options.disable_decleration

\* Mutant: calls are evaluated whatever the option says.
calls_enabled_always(options) == TRUE

\* if !self.interpreter_options.disable_calls
calls_enabled(options) == ~options.disable_calls

(***************************************************************************)
(* Symbols and the scope chain (src/src/symbol.rs, symbol_table.rs).       *)
(* scopes is the heap of SymbolTable values.                               *)
(***************************************************************************)
VarSymbol(name) == [kind |-> "VarSymbol", name |-> name, symbol_type |-> "Unknown"]
BuiltInSymbol(name) == [kind |-> "BuiltInSymbol", name |-> name]
FunctionSymbol(name, param) == [kind |-> "FunctionSymbol", name |-> name, param |-> param]

\* HashMap::new()
EmptyMap == [n \in {} |-> n]

SymbolTable_new(scope_name, scope_level, enclosing_scope) ==
    [symbols |-> EmptyMap, scope_name |-> scope_name, scope_level |-> scope_level,
     enclosing_scope |-> enclosing_scope]

\* HashMap::insert: the new symbol replaces one of the same name.
SymbolTable_insert(scopes, s, name, symbol) ==
    [scopes EXCEPT ![s].symbols =
        [n \in (DOMAIN scopes[s].symbols) \cup {name} |->
            IF n = name THEN symbol ELSE scopes[s].symbols[n]]]

RECURSIVE SymbolTable_look_up(_, _, _, _)
SymbolTable_look_up(scopes, s, name, current_scope_only) ==
    IF name \in DOMAIN scopes[s].symbols THEN <<scopes[s].symbols[name]>>
    ELSE IF current_scope_only THEN <<>>
    ELSE IF scopes[s].enclosing_scope = 0 THEN <<>>
    ELSE SymbolTable_look_up(scopes, scopes[s].enclosing_scope, name, FALSE)

SymbolTable_remove(scopes, s, name) ==
    [scopes EXCEPT ![s].symbols =
        [n \in (DOMAIN scopes[s].symbols) \ {name} |-> scopes[s].symbols[n]]]

(***************************************************************************)
(* Values and environments (src/src/enviroment.rs).  envs is the heap of   *)
(* Enviroment values.                                                      *)
(***************************************************************************)
\* Value::Number(f64).  class tells a finite (integral) number from the two
\* kinds of f64 that arithmetic on integers produces besides: NaN (0 / 0) and
\* an infinity (n / 0), whose sign is num.
ValNumber(num) == [tag |-> "Number", num |-> num, class |-> "finite"]
ValNaN == [tag |-> "Number", num |-> 0, class |-> "NaN"]
ValInfinity(sign) == [tag |-> "Number", num |-> sign, class |-> "inf"]
ValBoolean(boolean) == [tag |-> "Boolean", boolean |-> boolean]
ValString(string) == [tag |-> "String", string |-> string]
ValNone == [tag |-> "None"]
\* Value::Function(FunctionType, Env): ftype is Function, Lambda or BuiltIn;
\* name is the declared name, the lambda id or the built-in's name.
ValFunction(ftype, name, params, block, closure) ==
    [tag |-> "Function", ftype |-> ftype, name |-> name, params |-> params,
     block |-> block, closure |-> closure]

Enviroment_new(enclosing_enviroment) ==
    [values |-> EmptyMap, enclosing_enviroment |-> enclosing_enviroment]

RECURSIVE Enviroment_look_up(_, _, _, _)
Enviroment_look_up(envs, e, name, current_env_only) ==
    IF name \in DOMAIN envs[e].values THEN <<envs[e].values[name]>>
    ELSE IF current_env_only THEN <<>>
    ELSE IF envs[e].enclosing_enviroment = 0 THEN <<>>
    ELSE Enviroment_look_up(envs, envs[e].enclosing_enviroment, name, FALSE)

\* Result<(), String>: [ok, envs]
RECURSIVE Enviroment_assign(_, _, _, _)
Enviroment_assign(envs, e, name, value) ==
    IF name \in DOMAIN envs[e].values
    THEN [ok |-> TRUE, envs |-> [envs EXCEPT ![e].values[name] = value]]
    ELSE IF envs[e].enclosing_enviroment # 0
    THEN Enviroment_assign(envs, envs[e].enclosing_enviroment, name, value)
    ELSE [ok |-> FALSE, envs |-> envs]

Enviroment_define(envs, e, name, value) ==
    [envs EXCEPT ![e].values =
        [n \in (DOMAIN envs[e].values) \cup {name} |->
            IF n = name THEN value ELSE envs[e].values[n]]]

(***************************************************************************)
(* The interpreter state threaded through both passes:                     *)
(*   scopes, scope   the SymbolTable heap and SemanticAnalyzer.scope       *)
(*   sa_options      SemanticAnalyzer.interpreter_options                  *)
(*   envs, env       the Enviroment heap and Interpreter.env               *)
(*   interpreter_options   Interpreter.interpreter_options                 *)
(* and the observations of the pass in progress (they never influence      *)
(* control flow):                                                          *)
(*   g_decl    one entry per `let`/`function` the semantic pass checked    *)
(*   g_calls   one entry per user function or lambda call that ended       *)
(*   g_created one entry per function value the evaluator created          *)
(*   g_out     the argument lists handed to the built-in print             *)
(*   g_assign  one entry per assignment either pass reached                *)
(*   g_blocks  one entry per Compound or Block evaluated to the end        *)
(***************************************************************************)

(***************************************************************************)
(* SemanticAnalyzer (src/src/semantic_analyzer.rs).                        *)
(***************************************************************************)
UnitVal == [tag |-> "Unit"]

\* Observation of one duplicate check: was the name in the current scope, was
\* it visible only through an enclosing scope, was the declaration rejected,
\* and did the declaration (body excluded) change the current scope's symbols.
DeclObs(st, name, rejected, after) ==
    [name |-> name,
     disabled |-> st.sa_options.disable_decleration,
     in_current |-> name \in DOMAIN st.scopes[st.scope].symbols,
     in_chain |-> SymbolTable_look_up(st.scopes, st.scope, name, FALSE) # <<>>,
     level |-> st.scopes[st.scope].scope_level,
     rejected |-> rejected,
     added |-> after # st.scopes]

\* Mutant: the duplicate check walks the whole scope chain.
SA_visit_variable_decleration_chain(st, node) ==
    IF ~st.sa_options.disable_decleration
    THEN IF SymbolTable_look_up(st.scopes, st.scope, node.identifier, FALSE) # <<>>
         THEN Err([st EXCEPT !.g_decl =
                      Append(@, DeclObs(st, node.identifier, TRUE, st.scopes))],
                  NekoError("SyntaxError", "Duplicate variable"))
         ELSE LET scopes1 == SymbolTable_insert(st.scopes, st.scope, node.identifier,
                                                VarSymbol(node.identifier))
              IN Ok([st EXCEPT !.scopes = scopes1,
                               !.g_decl = Append(@, DeclObs(st, node.identifier,
                                                            FALSE, scopes1))],
                    UnitVal)
    ELSE Ok([st EXCEPT !.g_decl =
                Append(@, DeclObs(st, node.identifier, FALSE, st.scopes))], UnitVal)

SA_visit_variable_decleration(st, node) ==
    IF decleration_enabled(st.sa_options)
    THEN IF SymbolTable_look_up(st.scopes, st.scope, node.identifier, TRUE) # <<>>
         THEN Err([st EXCEPT !.g_decl =
                      Append(@, DeclObs(st, node.identifier, TRUE, st.scopes))],
                  NekoError("SyntaxError", "Duplicate variable"))
         ELSE LET scopes1 == SymbolTable_insert(st.scopes, st.scope, node.identifier,
                                                VarSymbol(node.identifier))
              IN Ok([st EXCEPT !.scopes = scopes1,
                               !.g_decl = Append(@, DeclObs(st, node.identifier,
                                                            FALSE, scopes1))],
                    UnitVal)
    ELSE Ok([st EXCEPT !.g_decl =
                Append(@, DeclObs(st, node.identifier, FALSE, st.scopes))], UnitVal)

\* for param in &node.params { self.scope.borrow_mut().insert(param, VarSymbol) }
RECURSIVE SA_insert_params(_, _, _, _)
SA_insert_params(scopes, s, params, i) ==
    IF i > Len(params) THEN scopes
    ELSE SA_insert_params(SymbolTable_insert(scopes, s, params[i], VarSymbol(params[i])),
                          s, params, i + 1)

\* self.scope = Rc::new(RefCell::new(SymbolTable::new(name, level, Some(self.scope))))
SA_push_scope(st, name) ==
    LET level == st.scopes[st.scope].scope_level + 1
    IN [st EXCEPT !.scopes = Append(@, SymbolTable_new(name, level, st.scope)),
                  !.scope = Len(st.scopes) + 1]

\* self.scope = self.scope.enclosing_scope.unwrap()
SA_pop_scope(st) == [st EXCEPT !.scope = st.scopes[st.scope].enclosing_scope]

\* Observation of an Identifier node met by one of the two passes: the
\* semantic pass logs the identifiers it resolved, the evaluator the ones it
\* evaluated.
IdentObs(pass, name) == [pass |-> pass, name |-> name]

RECURSIVE SA_visit(_, _)
RECURSIVE SA_visit_nodes(_, _, _)
RECURSIVE SA_visit_expression(_, _)

\* for node in nodes { self.visit(&node)? }
SA_visit_nodes(st, nodes, i) ==
    IF i > Len(nodes) THEN Ok(st, UnitVal)
    ELSE LET r == SA_visit(st, nodes[i])
         IN IF r.ok THEN SA_visit_nodes(r.st, nodes, i + 1) ELSE r

SA_visit_compound(st, nodes) == SA_visit_nodes(st, nodes, 1)

SA_visit_block(st, nodes) == SA_visit_nodes(st, nodes, 1)

\* Observation of one assignment: is the name a symbol of no scope at all,
\* which pass reached it, was its right-hand side evaluated, did it assign.
AssignObs(st, name, pass, rhs_evaluated, assigned, value) ==
    [name |-> name,
     nowhere |-> \A s \in DOMAIN st.scopes : name \notin DOMAIN st.scopes[s].symbols,
     pass |-> pass, rhs_evaluated |-> rhs_evaluated, assigned |-> assigned,
     value |-> value]

SA_visit_assignment(st, node) ==
    IF SymbolTable_look_up(st.scopes, st.scope, node.identifier, FALSE) # <<>>
    THEN SA_visit(st, node.value)
    ELSE Err([st EXCEPT !.g_assign = Append(@, AssignObs(st, node.identifier, "semantic",
                                                         FALSE, FALSE, ValNone))],
             NekoError("ReferenceError",
                       "Cannot find value '" \o node.identifier \o "' in this scope"))

SA_visit_bin_operator(st, node) ==
    LET r == SA_visit(st, node.right)
    IN IF r.ok THEN SA_visit(r.st, node.left) ELSE r

SA_visit_unary_operation(st, node) == SA_visit(st, node.expression)

\* The arity and callee checks are commented out in the source: neither the
\* callee nor the arguments are visited.
SA_visit_function_call(st, node) == Ok(st, UnitVal)

SA_visit_function_decleration(st, node) ==
    IF decleration_enabled(st.sa_options)
    THEN IF SymbolTable_look_up(st.scopes, st.scope, node.name, TRUE) = <<>>
         THEN LET scopes1 == SymbolTable_insert(st.scopes, st.scope, node.name,
                                                FunctionSymbol(node.name, node.params))
                  st1 == [st EXCEPT !.scopes = scopes1,
                                    !.g_decl = Append(@, DeclObs(st, node.name,
                                                                 FALSE, scopes1))]
                  st2 == SA_push_scope(st1, node.name)
                  st3 == [st2 EXCEPT !.scopes =
                             SA_insert_params(st2.scopes, st2.scope, node.params, 1)]
                  r == SA_visit(st3, node.block)
              IN IF r.ok THEN Ok(SA_pop_scope(r.st), UnitVal) ELSE r
         ELSE Err([st EXCEPT !.g_decl =
                      Append(@, DeclObs(st, node.name, TRUE, st.scopes))],
                  NekoError("SyntaxError", "Duplicate variable"))
    ELSE Ok([st EXCEPT !.g_decl =
                Append(@, DeclObs(st, node.name, FALSE, st.scopes))], UnitVal)

SA_visit_lambda(st, node) ==
    LET st1 == [st EXCEPT !.scopes =
                   SymbolTable_insert(st.scopes, st.scope, node.id,
                                      FunctionSymbol(node.id, node.params))]
        st2 == SA_push_scope(st1, node.id)
        st3 == [st2 EXCEPT !.scopes =
                   SA_insert_params(st2.scopes, st2.scope, node.params, 1)]
        r == SA_visit(st3, node.block)
    IN IF r.ok THEN Ok(SA_pop_scope(r.st), UnitVal) ELSE r

SA_visit_expression(st, node) ==
    CASE node.type = "BinOperator" -> SA_visit_bin_operator(st, node)
      [] node.type \in {"Number", "Boolean", "String", "Object", "None"} -> Ok(st, UnitVal)
      [] node.type = "Identifier" ->
            IF SymbolTable_look_up(st.scopes, st.scope, node.iden, FALSE) # <<>>
            THEN Ok([st EXCEPT !.g_idents = Append(@, IdentObs("semantic", node.iden))],
                    UnitVal)
            ELSE Err(st, NekoError("ReferenceError", node.iden \o " is not defined"))
      [] node.type = "UnaryOperator" -> SA_visit_unary_operation(st, node)
      [] node.type = "AssignmentExpr" -> SA_visit_assignment(st, node)
      [] node.type = "SetPropertyExpr" -> Ok(st, UnitVal)
      [] node.type = "FunctionCall" -> SA_visit_function_call(st, node)
      [] node.type = "Lambda" -> SA_visit_lambda(st, node)
      [] node.type = "Index" -> Ok(st, UnitVal)
      [] OTHER -> Err(st, NekoError("SyntaxError", "Invalid Syntax"))

SA_visit(st, node) ==
    CASE node.type = "Compound" -> SA_visit_compound(st, node.nodes)
      [] node.type = "VariabeDecleration" -> SA_visit_variable_decleration(st, node)
      [] node.type = "FunctionDecleration" -> SA_visit_function_decleration(st, node)
      [] node.type = "Expression" -> SA_visit_expression(st, node.node)
      [] node.type = "Block" -> SA_visit_block(st, node.nodes)
      [] OTHER -> SA_visit_expression(st, node)

\* self.interpreter_options = option.clone(); self.visit(node)
SA_analyze_with_options(st, node, option) ==
    SA_visit([st EXCEPT !.sa_options = option], node)

(***************************************************************************)
(* Interpreter (src/src/interpreter.rs).                                   *)
(***************************************************************************)
\* A panic (Option::unwrap on None) unwinds through every frame: it is
\* carried like an error, but no handler sees it.
Panic(st) == Err(st, NekoError("Panic", "called Option::unwrap() on a None value"))
IsPanic(r) == ~r.ok /\ r.val.kind = "Panic"

\* The value of an expression the model does not define (see the header).
Undefined == CHOOSE v \in {} : TRUE

Abs(x) == IF x < 0 THEN 0 - x ELSE x

Sign(x) == IF x < 0 THEN -1 ELSE 1

\* `x as usize`: a negative number and NaN give 0 (the cast saturates; the
\* largest usize is beyond the numbers of the model).  The cast back is then
\* compared with x: (result as f64 - x).abs() > 0.0 is false when the
\* difference is NaN, and true when it is infinite.
convert_f64_usize(x) ==
    CASE x.class = "NaN" -> [ok |-> TRUE, val |-> 0]
      [] x.class = "inf" -> [ok |-> FALSE, val |-> 0]
      [] x.class = "finite" ->
            LET result == IF x.num < 0 THEN 0 ELSE x.num
            IN IF Abs(result - x.num) > 0 THEN [ok |-> FALSE, val |-> 0]
               ELSE [ok |-> TRUE, val |-> result]

to_bool(val) ==
    CASE val.tag = "Number" -> val.class # "finite" \/ val.num # 0
      [] val.tag = "String" -> val.string # ""
      [] val.tag = "Boolean" -> val.boolean
      [] val.tag = "Function" -> TRUE
      [] val.tag = "None" -> FALSE

loggable_value(val) ==
    CASE val.tag = "Number" ->
            CASE val.class = "finite" -> ToString(val.num)
              [] val.class = "NaN" -> "NaN"
              [] val.class = "inf" -> IF val.num < 0 THEN "-inf" ELSE "inf"
      [] val.tag = "Boolean" -> IF val.boolean THEN "true" ELSE "false"
      [] val.tag = "String" -> val.string
      [] val.tag = "Function" ->
            CASE val.ftype = "Function" -> "[Function: " \o val.name \o "]"
              [] val.ftype = "Lambda" -> "[Function: (lambda)]"
              [] val.ftype = "BuiltIn" -> "[Built-In Function: " \o val.name \o "]"
      [] val.tag = "None" -> "none"

\* str::repeat
RECURSIVE repeat(_, _)
repeat(string, n) == IF n = 0 THEN "" ELSE string \o repeat(string, n - 1)

\* f64 arithmetic on the integers a and b; the result is a Number value.
RECURSIVE powf(_, _)
powf(a, b) == IF b < 0 THEN Undefined ELSE IF b = 0 THEN 1 ELSE a * powf(a, b - 1)
f64_div(a, b) == IF b = 0 THEN (IF a = 0 THEN ValNaN ELSE ValInfinity(Sign(a)))
                 ELSE IF Abs(a) % Abs(b) = 0
                 THEN ValNumber(Sign(a) * Sign(b) * (Abs(a) \div Abs(b)))
                 ELSE Undefined
f64_rem(a, b) == IF b = 0 THEN ValNaN ELSE ValNumber(Sign(a) * (Abs(a) % Abs(b)))

\* An arithmetic operation one of whose operands is NaN gives NaN; one on an
\* infinity is not defined in the model.
NonFinite(left, right) ==
    IF left.class = "NaN" \/ right.class = "NaN" THEN ValNaN ELSE Undefined

\* #[derive(PartialEq)] on Value and Enviroment: functions compare their
\* declaration and then, by value, their captured environments.
RECURSIVE Value_eq(_, _, _)
RECURSIVE Enviroment_eq(_, _, _)
Value_eq(envs, a, b) ==
    IF a.tag # b.tag THEN FALSE
    ELSE CASE a.tag = "Number" ->
                 a.class # "NaN" /\ b.class # "NaN" /\ a.class = b.class /\ a.num = b.num
           [] a.tag = "Boolean" -> a.boolean = b.boolean
           [] a.tag = "String" -> a.string = b.string
           [] a.tag = "None" -> TRUE
           [] a.tag = "Function" ->
                 /\ a.ftype = b.ftype
                 /\ a.name = b.name
                 /\ a.params = b.params
                 /\ a.block = b.block
                 /\ Enviroment_eq(envs, a.closure, b.closure)
Enviroment_eq(envs, e1, e2) ==
    /\ DOMAIN envs[e1].values = DOMAIN envs[e2].values
    /\ \A n \in DOMAIN envs[e1].values :
          Value_eq(envs, envs[e1].values[n], envs[e2].values[n])
    /\ (envs[e1].enclosing_enviroment = 0) = (envs[e2].enclosing_enviroment = 0)
    /\ envs[e1].enclosing_enviroment # 0 =>
          Enviroment_eq(envs, envs[e1].enclosing_enviroment, envs[e2].enclosing_enviroment)

TypeErrorBinary == NekoError("TypeError", "Expected Number for binary operator")

number_operation(st, operator, left, right) ==
    IF left.tag = "Number" /\ right.tag = "Number"
    THEN Ok(st, IF left.class # "finite" \/ right.class # "finite"
                THEN (IF operator.v = "Exponent" THEN Undefined
                      ELSE NonFinite(left, right))
                ELSE CASE operator.v = "Minus" -> ValNumber(left.num - right.num)
                       [] operator.v = "Div" -> f64_div(left.num, right.num)
                       [] operator.v = "Modulus" -> f64_rem(left.num, right.num)
                       [] operator.v = "Exponent" ->
                             ValNumber(powf(left.num, right.num)))
    ELSE Err(st, TypeErrorBinary)

bool_operation(st, operator, left, right) ==
    IF left.tag = "Number" /\ right.tag = "Number"
    THEN Ok(st, ValBoolean(CASE left.class = "NaN" \/ right.class = "NaN" -> FALSE
                             [] left.class = "inf" \/ right.class = "inf" -> Undefined
                             [] operator.v = "GreaterThan" -> left.num > right.num
                             [] operator.v = "GreaterThanOrEqual" -> left.num >= right.num
                             [] operator.v = "LessThan" -> left.num < right.num
                             [] operator.v = "LessThanOrEqual" -> left.num <= right.num))
    ELSE Err(st, TypeErrorBinary)

\* The match on node.operator, both operands evaluated.
bin_operator_apply(st, operator, left, right) ==
    CASE operator = Operator("Plus") ->
            IF left.tag = "Number" /\ right.tag = "Number"
            THEN Ok(st, IF left.class # "finite" \/ right.class # "finite"
                        THEN NonFinite(left, right)
                        ELSE ValNumber(left.num + right.num))
            ELSE IF left.tag = "String" /\ right.tag = "String"
            THEN Ok(st, ValString(left.string \o right.string))
            ELSE Err(st, NekoError("TypeError", "Mismatched types for binary Add"))
      [] operator = Operator("Minus") -> number_operation(st, operator, left, right)
      [] operator = Operator("Mul") ->
            IF left.tag = "Number" /\ right.tag = "Number"
            THEN Ok(st, IF left.class # "finite" \/ right.class # "finite"
                        THEN NonFinite(left, right)
                        ELSE ValNumber(left.num * right.num))
            ELSE IF \/ (left.tag = "String" /\ right.tag = "Number")
                    \/ (left.tag = "Number" /\ right.tag = "String")
            THEN LET a == IF left.tag = "String" THEN left.string ELSE right.string
                     b == IF left.tag = "String" THEN right ELSE left
                     n == convert_f64_usize(b)
                 IN IF n.ok THEN Ok(st, ValString(repeat(a, n.val)))
                    ELSE Err(st, NekoError("TypeError",
                        "Can't multiply sequence by non-positive int of type float or negative int"))
            ELSE Err(st, NekoError("TypeError", "Mismatched types for binary Mul"))
      [] operator = Operator("Div") -> number_operation(st, operator, left, right)
      [] operator = Operator("Modulus") -> number_operation(st, operator, left, right)
      [] operator = Operator("Exponent") -> number_operation(st, operator, left, right)
      [] operator = Operator("DoubleEqual") ->
            Ok(st, ValBoolean(Value_eq(st.envs, left, right)))
      [] operator = Operator("NotEqual") ->
            Ok(st, ValBoolean(~Value_eq(st.envs, left, right)))
      [] operator = Operator("GreaterThan") -> bool_operation(st, operator, left, right)
      [] operator = Operator("GreaterThanOrEqual") -> bool_operation(st, operator, left, right)
      [] operator = Operator("LessThan") -> bool_operation(st, operator, left, right)
      [] operator = Operator("LessThanOrEqual") -> bool_operation(st, operator, left, right)
      [] operator = Keyword("Or") -> IF to_bool(left) THEN Ok(st, left) ELSE Ok(st, right)
      [] operator = Keyword("And") -> IF ~to_bool(left) THEN Ok(st, left) ELSE Ok(st, right)
      [] OTHER -> Err(st, NekoError("SyntaxError", "Expected Operator"))

\* The native functions of set_up_env.
built_in_apply(st, name, args) ==
    CASE name = "print" -> Ok([st EXCEPT !.g_out = Append(@, args)], ValNone)
      [] name = "error" ->
            IF Len(args) > 0
            THEN Err(st, NekoError("UnknownError", loggable_value(args[1])))
            ELSE Err(st, NekoError("TypeError", "Expect value got none."))

\* Observation of one finished call of function_call.
CallObs(callee, caller, closure, fresh, parent, body_env, exit, ok) ==
    [callee |-> callee, caller |-> caller, closure |-> closure, fresh |-> fresh,
     parent |-> parent, body_env |-> body_env, exit |-> exit, ok |-> ok]

RECURSIVE I_visit(_, _)
RECURSIVE I_visit_expression(_, _)
RECURSIVE I_visit_function_call(_, _)
RECURSIVE I_visit_nodes(_, _, _, _, _)
RECURSIVE I_bind_params(_, _, _, _, _, _)
RECURSIVE I_eval_args(_, _, _, _)

\* The part of the interpreter's state the program itself holds.
Program(st) == [scopes |-> st.scopes, scope |-> st.scope, envs |-> st.envs,
                env |-> st.env]

\* Observation of one binary operation whose left operand evaluated to
\* `left`: did the evaluation of the right operand succeed, what did it give,
\* did it change a scope or an environment, and what the operation returned.
BinObs(node, l, r, result) ==
    [operator |-> node.operator, left |-> l.val, right_ok |-> r.ok,
     right |-> r.val, right_changed |-> Program(r.st) # Program(l.st),
     ok |-> result.ok, val |-> result.val]

I_visit_bin_operator(st, node) ==
    LET l == I_visit_expression(st, node.left)
    IN IF ~l.ok THEN l
       ELSE LET r == I_visit_expression(l.st, node.right)
                result == IF ~r.ok THEN r
                          ELSE bin_operator_apply(r.st, node.operator, l.val, r.val)
            IN IF IsPanic(result) THEN result
               ELSE [result EXCEPT !.st.g_binops = Append(@, BinObs(node, l, r, result))]

\* The match on node.operator, the operand evaluated to `value`.  (The Plus
\* arm is self.visit_expression(&node.expression) itself.)
unary_operator_apply(st, operator, value) ==
    CASE operator = Operator("Plus") -> Ok(st, value)
      [] operator = Operator("Minus") ->
            IF value.tag = "Number"
            THEN Ok(st, [value EXCEPT !.num = 0 - value.num])
            ELSE Err(st, NekoError("TypeError", "Expected Number for Unary"))
      [] operator = Operator("Not") ->
            IF value.tag = "Boolean" THEN Ok(st, ValBoolean(~value.boolean))
            ELSE IF value.tag \in {"String", "Number"}
            THEN Ok(st, ValBoolean(~to_bool(value)))
            ELSE Err(st, NekoError("TypeError", "Expected Number for Unary"))

I_visit_unary_operator(st, node) ==
    IF node.operator \in {Operator("Plus"), Operator("Minus"), Operator("Not")}
    THEN LET r == I_visit_expression(st, node.expression)
         IN IF ~r.ok THEN r
            ELSE LET result == unary_operator_apply(r.st, node.operator, r.val)
                 IN [result EXCEPT !.st.g_unary =
                        Append(@, [operator |-> node.operator, value |-> r.val,
                                   ok |-> result.ok, val |-> result.val])]
    ELSE Err(st, NekoError("SyntaxError", "Expected Unary Operator '+' or '-'"))

\* Mutant: every statement's value replaces the result.
visit_nodes_step_always(result, val) == val

\* match self.visit(&node)? { Value::None => (), val => result = val }
visit_nodes_step(result, val) == IF val.tag = "None" THEN result ELSE val

\* The loop of visit_compound and visit_block.  vals collects the value of
\* each statement for the observation made when the loop ends.
I_visit_nodes(st, nodes, i, result, vals) ==
    IF i > Len(nodes)
    THEN Ok([st EXCEPT !.g_blocks = Append(@, [vals |-> vals, result |-> result])],
            result)
    ELSE LET r == I_visit(st, nodes[i])
         IN IF ~r.ok THEN r
            ELSE I_visit_nodes(r.st, nodes, i + 1, visit_nodes_step(result, r.val),
                               Append(vals, r.val))

I_visit_compound(st, nodes) == I_visit_nodes(st, nodes, 1, ValNone, <<>>)

I_visit_block(st, nodes) == I_visit_nodes(st, nodes, 1, ValNone, <<>>)

\* Observation of one `let` or `function` statement the evaluator finished:
\* the environment it defined the name in (0: none), the fresh environment of
\* the innermost call in progress (0: top level), whether the statement
\* changed any scope or environment, and its value.
EvalDeclObs(st, name, env, after, val) ==
    [name |-> name, disabled |-> st.interpreter_options.disable_decleration,
     env |-> env,
     own |-> IF st.g_stack = <<>> THEN 0 ELSE st.g_stack[Len(st.g_stack)],
     changed |-> Program(after) # Program(st), val |-> val]

\* Observation of the removal a failing `let` makes: the scope it removes
\* the name from, whether the name had a symbol there, and whether the `let`
\* is evaluated inside a call.
RemoveObs(st, name) ==
    [name |-> name, scope |-> st.scope,
     level |-> st.scopes[st.scope].scope_level,
     removed |-> name \in DOMAIN st.scopes[st.scope].symbols,
     in_body |-> st.g_stack # <<>>]

I_visit_variable_decleration(st, node) ==
    IF decleration_enabled(st.interpreter_options)
    THEN IF node.value = <<>>
         THEN LET st1 == [st EXCEPT !.envs = Enviroment_define(st.envs, st.env,
                                                               node.identifier, ValNone)]
              IN Ok([st1 EXCEPT !.g_edecl =
                        Append(@, EvalDeclObs(st, node.identifier, st.env, st1, ValNone))],
                    ValNone)
         ELSE LET r == I_visit(st, node.value[1])
              IN IF r.ok
                 THEN LET st1 == [r.st EXCEPT !.envs =
                                     Enviroment_define(r.st.envs, r.st.env,
                                                       node.identifier, r.val)]
                      IN Ok([st1 EXCEPT !.g_edecl =
                                Append(@, EvalDeclObs(r.st, node.identifier, r.st.env,
                                                      st1, ValNone))],
                            ValNone)
                 ELSE IF IsPanic(r) THEN r
                 ELSE Err([r.st EXCEPT !.scopes = SymbolTable_remove(r.st.scopes, r.st.scope,
                                                                     node.identifier),
                                       !.g_removed = Append(@, RemoveObs(r.st, node.identifier))],
                          r.val)
    ELSE Ok([st EXCEPT !.g_edecl =
                Append(@, EvalDeclObs(st, node.identifier, 0, st, ValNone))], ValNone)

I_visit_function_decleration(st, node) ==
    IF decleration_enabled(st.interpreter_options)
    THEN LET function == ValFunction("Function", node.name, node.params, node.block, st.env)
             st1 == [st EXCEPT !.envs = Enviroment_define(st.envs, st.env, node.name,
                                                          function)]
         IN Ok([st1 EXCEPT !.g_created = Append(@, [name |-> node.name, env |-> st.env,
                                                    closure |-> function.closure]),
                           !.g_edecl = Append(@, EvalDeclObs(st, node.name, st.env, st1,
                                                             ValNone))],
               ValNone)
    ELSE Ok([st EXCEPT !.g_edecl =
                Append(@, EvalDeclObs(st, node.name, 0, st, ValNone))], ValNone)

I_visit_lambda_decleration(st, node) ==
    LET function == ValFunction("Lambda", node.id, node.params, node.block, st.env)
    IN Ok([st EXCEPT !.envs = Enviroment_define(st.envs, st.env, node.id, function),
                     !.g_created = Append(@, [name |-> node.id, env |-> st.env,
                                              closure |-> function.closure])],
          function)

\* Observation of one parameter binding of the call whose fresh environment
\* is `fresh`: the environment the parameter was defined in, and its value.
BindObs(fresh, param, env, supplied, value) ==
    [fresh |-> fresh, param |-> param, env |-> env, supplied |-> supplied,
     value |-> value]

\* Observation of the evaluation of one argument of a call of a user function
\* or lambda: the caller's environment, the call's fresh environment and the
\* environment that was current when the argument was evaluated.
ArgObs(caller, fresh, env, index, ok) ==
    [caller |-> caller, fresh |-> fresh, env |-> env, index |-> index, ok |-> ok]

\* Value::None for a parameter without an argument.
missing_argument == ValNone

\* for (index, param) in params.iter().enumerate(): the argument is evaluated
\* and the parameter defined in whatever self.env is at that moment.
I_bind_params(st, node, params, i, fresh, caller) ==
    IF i > Len(params) THEN Ok(st, ValNone)
    ELSE IF i <= Len(node.arguments)
    THEN LET r == I_visit(st, node.arguments[i])
             args == Append(r.st.g_args, ArgObs(caller, fresh, st.env, i, r.ok))
         IN IF IsPanic(r) THEN r
            ELSE IF ~r.ok THEN [r EXCEPT !.st.g_args = args]
            ELSE I_bind_params(
                    [r.st EXCEPT !.envs =
                         Enviroment_define(r.st.envs, r.st.env, params[i], r.val),
                                 !.g_binds = Append(@, BindObs(fresh, params[i], r.st.env,
                                                               TRUE, r.val)),
                                 !.g_args = args],
                    node, params, i + 1, fresh, caller)
    ELSE I_bind_params(
            [st EXCEPT !.envs =
                 Enviroment_define(st.envs, st.env, params[i], missing_argument),
                       !.g_binds = Append(@, BindObs(fresh, params[i], st.env, FALSE,
                                                     missing_argument))],
            node, params, i + 1, fresh, caller)

\* The environment function_call makes current before the arguments are
\* evaluated: a new Enviroment whose enclosing one is `closure`.
function_call_enter(st, closure) ==
    [st EXCEPT !.envs = Append(@, Enviroment_new(closure)),
               !.env = Len(st.envs) + 1]

\* self.env = self.env.enclosing_enviroment.unwrap()
function_call_exit(st) ==
    IF st.envs[st.env].enclosing_enviroment = 0 THEN Panic(st)
    ELSE Ok([st EXCEPT !.env = st.envs[st.env].enclosing_enviroment], ValNone)

function_call(st, node, callee, params, block, closure) ==
    LET st0 == function_call_enter(st, closure)
        fresh == st0.env
        st1 == [st0 EXCEPT !.g_stack = Append(@, fresh)]
        parent == st1.envs[fresh].enclosing_enviroment
        obs(s, body_env, ok) ==
            [s EXCEPT !.g_calls = Append(@, CallObs(callee, st.env, closure, fresh,
                                                    parent, body_env, s.env, ok))]
        a == I_bind_params(st1, node, params, 1, fresh, st.env)
    IN IF ~a.ok THEN [a EXCEPT !.st = obs(a.st, 0, FALSE)]
       ELSE LET result == I_visit(a.st, block)
            IN IF ~result.ok THEN [result EXCEPT !.st = obs(result.st, a.st.env, FALSE)]
               ELSE LET x == function_call_exit(result.st)
                    IN IF ~x.ok THEN [x EXCEPT !.st = obs(x.st, a.st.env, FALSE)]
                       ELSE Ok([obs(x.st, a.st.env, TRUE) EXCEPT
                                   !.g_stack = SubSeq(@, 1, Len(@) - 1)],
                               result.val)

\* for arg in &node.arguments { args.push(self.visit(&arg)?) }
I_eval_args(st, arguments, i, args) ==
    IF i > Len(arguments) THEN Ok(st, args)
    ELSE LET r == I_visit(st, arguments[i])
         IN IF ~r.ok THEN r ELSE I_eval_args(r.st, arguments, i + 1, Append(args, r.val))

handle_function(st, node, value) ==
    IF value.tag = "Function" /\ value.ftype \in {"Function", "Lambda"}
    THEN function_call(st, node, value.name, value.params, value.block, value.closure)
    ELSE IF value.tag = "Function" /\ value.ftype = "BuiltIn"
    THEN LET a == I_eval_args(st, node.arguments, 1, <<>>)
         IN IF ~a.ok THEN a ELSE built_in_apply(a.st, value.name, a.val)
    ELSE Err(st, NekoError("TypeError", "is not a function"))

\* Observation of one FunctionCall node evaluated with disable_calls set:
\* what it returned, and whether it changed the program's state or printed.
DisabledCallObs(st, r) ==
    [ok |-> r.ok, val |-> r.val,
     changed |-> Program(r.st) # Program(st) \/ r.st.g_out # st.g_out]

I_visit_function_call(st, node) ==
    IF calls_enabled(st.interpreter_options)
    THEN LET r ==
               CASE node.function.type = "Identifier" ->
                     LET current_env == Enviroment_look_up(st.envs, st.env,
                                                           node.function.iden, FALSE)
                     IN IF current_env # <<>>
                        THEN handle_function(st, node, current_env[1])
                        ELSE Err(st, NekoError("ReferenceError",
                                               node.function.iden \o " is not defined"))
                 [] node.function.type = "FunctionCall" ->
                     LET result == I_visit_function_call(st, node.function)
                     IN IF ~result.ok THEN result
                        ELSE handle_function(result.st, node, result.val)
                 [] node.function.type = "Lambda" ->
                     function_call(st, node, node.function.id, node.function.params,
                                   node.function.block, st.env)
                 [] OTHER -> Err(st, NekoError("TypeError", "is not a function"))
         IN IF st.interpreter_options.disable_calls /\ ~IsPanic(r)
            THEN [r EXCEPT !.st.g_fcalls = Append(@, DisabledCallObs(st, r))]
            ELSE r
    ELSE LET r == Err(st, NekoError("UnknownError", "Calls Disabled"))
         IN [r EXCEPT !.st.g_fcalls = Append(@, DisabledCallObs(st, r))]

I_visit_assignment(st, node) ==
    LET r == I_visit_expression(st, node.value)
        obs(s, assigned, value) ==
            [s EXCEPT !.g_assign = Append(@, AssignObs(st, node.identifier, "eval",
                                                       TRUE, assigned, value))]
    IN IF ~r.ok THEN [r EXCEPT !.st = obs(r.st, FALSE, ValNone)]
       ELSE LET a == Enviroment_assign(r.st.envs, r.st.env, node.identifier, r.val)
            IN IF a.ok THEN Ok(obs([r.st EXCEPT !.envs = a.envs], TRUE, r.val), r.val)
               ELSE Err(obs(r.st, FALSE, ValNone),
                        NekoError("ReferenceError",
                                  "Attempt to assign to undefined variable "
                                      \o node.identifier))

I_visit_expression(st, node) ==
    CASE node.type = "BinOperator" -> I_visit_bin_operator(st, node)
      [] node.type = "Number" -> Ok(st, ValNumber(node.num))
      [] node.type = "Boolean" -> Ok(st, ValBoolean(node.boolean))
      [] node.type = "String" -> Ok(st, ValString(node.string))
      [] node.type = "None" -> Ok(st, ValNone)
      [] node.type = "Identifier" ->
            LET v == Enviroment_look_up(st.envs, st.env, node.iden, FALSE)
                st1 == [st EXCEPT !.g_idents = Append(@, IdentObs("evaluator", node.iden))]
            IN IF v # <<>> THEN Ok(st1, v[1])
               ELSE Err(st1, NekoError("ReferenceError", node.iden \o " is not defined"))
      [] node.type = "UnaryOperator" -> I_visit_unary_operator(st, node)
      [] node.type = "AssignmentExpr" -> I_visit_assignment(st, node)
      [] node.type = "FunctionCall" -> I_visit_function_call(st, node)
      [] node.type = "Lambda" -> I_visit_lambda_decleration(st, node)
      [] OTHER -> Err(st, NekoError("SyntaxError", "Invalid Syntax"))

I_visit(st, node) ==
    CASE node.type = "Compound" -> I_visit_compound(st, node.nodes)
      [] node.type = "VariabeDecleration" -> I_visit_variable_decleration(st, node)
      [] node.type = "FunctionDecleration" -> I_visit_function_decleration(st, node)
      [] node.type = "Block" -> I_visit_block(st, node.nodes)
      [] node.type = "Expression" -> I_visit_expression(st, node.node)
      [] OTHER -> I_visit_expression(st, node)

(***************************************************************************)
(* Inputs.  A line of source text is given with the result of              *)
(* Parser::parse on it (src/src/parser.rs): Ok(ast) or Err(message).       *)
(***************************************************************************)
Source(text, ast) == [text |-> text, parse |-> [ok |-> TRUE, val |-> ast]]
Unparsable(text, msg) == [text |-> text, parse |-> [ok |-> FALSE, val |-> msg]]

Call(name, arguments) == FunctionCall(Identifier(name), arguments)
Stmt(node) == Expression(node)
Let(identifier, value) == VariabeDecleration(identifier, <<value>>)

Programs == <<
    Unparsable("1 = 2;", "Invalid assignment operator"),
    Source("7; let x = 1;",
        Compound(<<Stmt(Number(7)), Let("x", Number(1))>>)),
    Source("x;",
        Compound(<<Stmt(Identifier("x"))>>)),
    Source("function f(x) { error(1); } f(2);",
        Compound(<<FunctionDecleration("f", <<"x">>,
                       Block(<<Stmt(Call("error", <<Number(1)>>))>>)),
                   Stmt(Call("f", <<Number(2)>>))>>)),
    Source("function g() { 1; } function h(a) { g(); a; } h(5);",
        Compound(<<FunctionDecleration("g", <<>>, Block(<<Stmt(Number(1))>>)),
                   FunctionDecleration("h", <<"a">>,
                       Block(<<Stmt(Call("g", <<>>)), Stmt(Identifier("a"))>>)),
                   Stmt(Call("h", <<Number(5)>>))>>)),
    Source("function make(x) { |y| y + x; } let k = make(10); k(5);",
        Compound(<<FunctionDecleration("make", <<"x">>,
                       Block(<<Stmt(Lambda("0x1", <<"y">>,
                                   Block(<<BinOperator(Identifier("y"), Operator("Plus"),
                                                       Identifier("x"))>>)))>>)),
                   Let("k", Call("make", <<Number(10)>>)),
                   Stmt(Call("k", <<Number(5)>>))>>)),
    Source("let n = 1; function mk() { let n = 10; |a| a; } let c = mk(); function r(x) { n; } r(c(1));",
        Compound(<<Let("n", Number(1)),
                   FunctionDecleration("mk", <<>>,
                       Block(<<Let("n", Number(10)),
                               Stmt(Lambda("0x2", <<"a">>, Block(<<Identifier("a")>>)))>>)),
                   Let("c", Call("mk", <<>>)),
                   FunctionDecleration("r", <<"x">>, Block(<<Stmt(Identifier("n"))>>)),
                   Stmt(Call("r", <<Call("c", <<Number(1)>>)>>))>>)),
    Source("function bad() { zz; }",
        Compound(<<FunctionDecleration("bad", <<>>, Block(<<Stmt(Identifier("zz"))>>))>>)),
    Source("let x = error(1);",
        Compound(<<Let("x", Call("error", <<Number(1)>>))>>)),
    Source("print(w = (x = 5));",
        Compound(<<Stmt(Call("print",
            <<AssignmentExpr("w", AssignmentExpr("x", Number(5)))>>))>>)),
    Source("w = 2;",
        Compound(<<Stmt(AssignmentExpr("w", Number(2)))>>)),
    Source("function sh() { let print = 4; let print; }",
        Compound(<<FunctionDecleration("sh", <<>>,
            Block(<<Let("print", Number(4)), VariabeDecleration("print", <<>>)>>))>>)),
    Source("let u; u;",
        Compound(<<VariabeDecleration("u", <<>>), Stmt(Identifier("u"))>>)),
    Source("function p(a) { a; } p(p(1));",
        Compound(<<FunctionDecleration("p", <<"a">>, Block(<<Stmt(Identifier("a"))>>)),
                   Stmt(Call("p", <<Call("p", <<Number(1)>>)>>))>>)),
    Source("function two(a, b) { b; } two(1);",
        Compound(<<FunctionDecleration("two", <<"a", "b">>,
                       Block(<<Stmt(Identifier("b"))>>)),
                   Stmt(Call("two", <<Number(1)>>))>>)),
    Source("let x = 1; function lg() { 1; } function mk() { || 1; } let k = mk(); function lh() { lg(); let x = 2; k(); } lh(); x;",
        Compound(<<Let("x", Number(1)),
                   FunctionDecleration("lg", <<>>, Block(<<Stmt(Number(1))>>)),
                   FunctionDecleration("mk", <<>>,
                       Block(<<Stmt(Lambda("0x4", <<>>, Block(<<Number(1)>>)))>>)),
                   Let("k", Call("mk", <<>>)),
                   FunctionDecleration("lh", <<>>,
                       Block(<<Stmt(Call("lg", <<>>)), Let("x", Number(2)),
                               Stmt(Call("k", <<>>))>>)),
                   Stmt(Call("lh", <<>>)),
                   Stmt(Identifier("x"))>>)),
    Source("ya + yb;",
        Compound(<<Stmt(BinOperator(Identifier("ya"), Operator("Plus"),
                                    Identifier("yb")))>>)),
    Source("let va = 1; let vb = zz;",
        Compound(<<Let("va", Number(1)), Let("vb", Identifier("zz"))>>)),
    Source("function pa(a) { a; } function qb(b) { pa(b); } qb(1);",
        Compound(<<FunctionDecleration("pa", <<"a">>, Block(<<Stmt(Identifier("a"))>>)),
                   FunctionDecleration("qb", <<"b">>,
                       Block(<<Stmt(Call("pa", <<Identifier("b")>>))>>)),
                   Stmt(Call("qb", <<Number(1)>>))>>)),
    Source("let gx = 1; function fx() { let gx = error(1); } fx();",
        Compound(<<Let("gx", Number(1)),
                   FunctionDecleration("fx", <<>>,
                       Block(<<Let("gx", Call("error", <<Number(1)>>))>>)),
                   Stmt(Call("fx", <<>>))>>))
>>

\* The lines the editor asks a hint for (EditorHelper::hint).
HintLines == <<
    Source("x = 5;", Compound(<<Stmt(AssignmentExpr("x", Number(5)))>>)),
    Source("|a| a;", Compound(<<Stmt(Lambda("0x3", <<"a">>, Block(<<Identifier("a")>>)))>>)),
    Source("let print = 1;", Compound(<<Let("print", Number(1))>>)),
    Source("print(f(x = 5));",
        Compound(<<Stmt(Call("print",
                     <<Call("f", <<AssignmentExpr("x", Number(5))>>)>>))>>)),
    Source("let q = 1; function qf() { 1; } 2;",
        Compound(<<Let("q", Number(1)),
                   FunctionDecleration("qf", <<>>, Block(<<Stmt(Number(1))>>)),
                   Stmt(Number(2))>>)),
    Source("let q = 1; q;",
        Compound(<<Let("q", Number(1)), Stmt(Identifier("q"))>>))
>>

\* The number of inputs one run gives the interpreter.
MaxInputs == 3

(***************************************************************************)
(* The Interpreter.                                                        *)
(***************************************************************************)
VARIABLES
    scopes, scope, sa_options,      \* SemanticAnalyzer: scope heap, scope, options
    envs, env, interpreter_options, \* Interpreter: environment heap, env, options
    panicked,                       \* the process was aborted by a panic
    result,                         \* what the last interpret call returned
    inputs,                         \* number of inputs so far
    last,                           \* the last input and how it was given
    g_decl, g_calls, g_created, g_out, g_assign, g_blocks,  \* its observations
    g_binds, g_edecl, g_fcalls, g_stack, g_unary, g_binops,
    g_idents, g_args, g_removed,
    src_text,                       \* Parser::new: the text given to the parser
    lex_tokens,                     \* Lexer::tokens after lex()
    parse_result,                   \* what Parser::parse returned
    stage,                          \* how far the text has got
    x_bound,                        \* value a top-level `let x` bound, if any
    hinted                          \* some input so far was a hint line

vars == <<scopes, scope, sa_options, envs, env, interpreter_options, panicked,
          result, inputs, last, g_decl, g_calls, g_created, g_out, g_assign,
          g_blocks, g_binds, g_edecl, g_fcalls, g_stack, g_unary, g_binops,
          g_idents, g_args, g_removed, src_text, lex_tokens, parse_result,
          stage, x_bound, hinted>>

\* Interpreter::new with set_up_env, SemanticAnalyzer::new.
Interpreter_new ==
    [scopes |-> <<[SymbolTable_new("global", 1, 0) EXCEPT
                      !.symbols = [n \in {"print", "error"} |-> BuiltInSymbol(n)]]>>,
     scope |-> 1,
     sa_options |-> InterpreterOptions_new,
     envs |-> <<[Enviroment_new(0) EXCEPT
                    !.values = [n \in {"print", "error"} |->
                                   ValFunction("BuiltIn", n, <<>>, NoneNode, 1)]]>>,
     env |-> 1,
     interpreter_options |-> InterpreterOptions_new]

\* No text has been parsed.
NoParse == [ok |-> TRUE, val |-> [type |-> "None"], loops |-> <<>>]

NoObservations ==
    [g_decl |-> <<>>, g_calls |-> <<>>, g_created |-> <<>>, g_out |-> <<>>,
     g_assign |-> <<>>, g_blocks |-> <<>>, g_binds |-> <<>>, g_edecl |-> <<>>,
     g_fcalls |-> <<>>, g_stack |-> <<>>, g_unary |-> <<>>, g_binops |-> <<>>,
     g_idents |-> <<>>, g_args |-> <<>>, g_removed |-> <<>>]

\* let ast = parser.parse()?: a parse error is a String, which `?` converts
\* with From<String> for NekoError (src/src/misc.rs).
Parser_parse(st, input) ==
    IF input.parse.ok THEN Ok(st, input.parse.val)
    ELSE Err(st, NekoError("UnknownError", input.parse.val))

interpret_with_option(st, input, option) ==
    LET st1 == [st EXCEPT !.interpreter_options = option]
        ast == Parser_parse(st1, input)
    IN IF ~ast.ok THEN ast
       ELSE LET a == SA_analyze_with_options(st1, ast.val, st1.interpreter_options)
            IN IF ~a.ok THEN a ELSE I_visit(a.st, ast.val)

interpret(st, input) == interpret_with_option(st, input, InterpreterOptions_new)

Current ==
    [scopes |-> scopes, scope |-> scope, sa_options |-> sa_options, envs |-> envs,
     env |-> env, interpreter_options |-> interpreter_options] @@ NoObservations

\* The literal a top-level `let name = <literal>;` of the program binds.
TopLevelLiteral(ast, name) ==
    LET is == {i \in DOMAIN ast.nodes :
                  /\ ast.nodes[i].type = "VariabeDecleration"
                  /\ ast.nodes[i].identifier = name
                  /\ ast.nodes[i].value # <<>>
                  /\ ast.nodes[i].value[1].type = "Number"}
    IN IF is = {} THEN <<>>
       ELSE <<ValNumber(ast.nodes[CHOOSE i \in is : \A j \in is : j <= i].value[1].num)>>

\* The value last assigned to `name` by the input, if any.
LastAssigned(log, name) ==
    LET is == {i \in DOMAIN log : log[i].name = name /\ log[i].assigned}
    IN IF is = {} THEN <<>>
       ELSE <<log[CHOOSE i \in is : \A j \in is : j <= i].value>>

Finish(r, input, mode) ==
    /\ panicked' = IsPanic(r)
    /\ result' = [ok |-> r.ok, val |-> r.val]
    /\ inputs' = inputs + 1
    /\ last' = [text |-> input.text, mode |-> mode, parsed |-> input.parse.ok]
    /\ scopes' = r.st.scopes
    /\ scope' = r.st.scope
    /\ sa_options' = r.st.sa_options
    /\ envs' = r.st.envs
    /\ env' = r.st.env
    /\ interpreter_options' = r.st.interpreter_options
    /\ g_decl' = r.st.g_decl
    /\ g_calls' = r.st.g_calls
    /\ g_created' = r.st.g_created
    /\ g_out' = r.st.g_out
    /\ g_assign' = r.st.g_assign
    /\ g_blocks' = r.st.g_blocks
    /\ g_binds' = r.st.g_binds
    /\ g_edecl' = r.st.g_edecl
    /\ g_fcalls' = r.st.g_fcalls
    /\ g_stack' = r.st.g_stack
    /\ g_unary' = r.st.g_unary
    /\ g_binops' = r.st.g_binops
    /\ g_idents' = r.st.g_idents
    /\ g_args' = r.st.g_args
    /\ g_removed' = r.st.g_removed
    /\ UNCHANGED <<src_text, lex_tokens, parse_result, stage>>
    /\ hinted' = (hinted \/ mode = "hint")
    /\ x_bound' =
          LET assigned == LastAssigned(r.st.g_assign, "x")
              declared == IF r.ok /\ mode = "interpret" /\ input.parse.ok
                          THEN TopLevelLiteral(input.parse.val, "x") ELSE <<>>
          IN IF declared # <<>> THEN declared
             ELSE IF x_bound # <<>> /\ assigned # <<>> THEN assigned
             ELSE x_bound

\* The interpreter after construction.
InitInterpreter ==
    /\ scopes = Interpreter_new.scopes
    /\ scope = Interpreter_new.scope
    /\ sa_options = Interpreter_new.sa_options
    /\ envs = Interpreter_new.envs
    /\ env = Interpreter_new.env
    /\ interpreter_options = Interpreter_new.interpreter_options
    /\ panicked = FALSE
    /\ result = [ok |-> TRUE, val |-> ValNone]
    /\ inputs = 0
    /\ last = [text |-> "", mode |-> "none", parsed |-> TRUE]
    /\ g_decl = <<>>
    /\ g_calls = <<>>
    /\ g_created = <<>>
    /\ g_out = <<>>
    /\ g_assign = <<>>
    /\ g_blocks = <<>>
    /\ g_binds = <<>>
    /\ g_edecl = <<>>
    /\ g_fcalls = <<>>
    /\ g_stack = <<>>
    /\ g_unary = <<>>
    /\ g_binops = <<>>
    /\ g_idents = <<>>
    /\ g_args = <<>>
    /\ g_removed = <<>>
    /\ x_bound = <<>>
    /\ hinted = FALSE

Init ==
    /\ InitInterpreter
    /\ src_text = <<>>
    /\ lex_tokens = <<>>
    /\ parse_result = NoParse
    /\ stage = "none"

\* The REPL or the file runner gives a line to Interpreter::interpret.
Interpret ==
    /\ ~panicked
    /\ inputs < MaxInputs
    /\ \E i \in DOMAIN Programs :
          Finish(interpret(Current, Programs[i]), Programs[i], "interpret")

\* EditorHelper::hint on a line that is not blank:
\* interpret_with_option(line, &InterpreterOptions::all()).
Hint ==
    /\ ~panicked
    /\ inputs < MaxInputs
    /\ \E i \in DOMAIN HintLines :
          /\ HintLines[i].text # ""
          /\ Finish(interpret_with_option(Current, HintLines[i], InterpreterOptions_all),
                    HintLines[i], "hint")

Next == Interpret \/ Hint

Spec == Init /\ [][Next]_vars

(***************************************************************************)
(* The operators.  A second specification gives the interpreter            *)
(* expressions built from a small set of operands: unary operators and     *)
(* `*` through interpret, `and` and `or` through the evaluator.            *)
(***************************************************************************)
Operand(text, node) == [text |-> text, node |-> node]

Operands == <<
    Operand("0", Number(0)),
    Operand("2", Number(2)),
    Operand("\"\"", String("")),
    Operand("\"ab\"", String("ab")),
    Operand("true", Boolean(TRUE)),
    Operand("false", Boolean(FALSE)),
    Operand("print", Identifier("print")),
    Operand("u", Identifier("u")),
    Operand("(0 / 0)", BinOperator(Number(0), Operator("Div"), Number(0))),
    Operand("(x = 5)", AssignmentExpr("x", Number(5))),
    Operand("ya", Identifier("ya")),
    Operand("-1", UnaryOperator(Operator("Minus"), Number(1)))
>>

\* The operands each action draws from, as indices of Operands.
UnaryOperands == {2, 3, 4, 5, 7, 8, 9}
StringOperands == {4}
NumberOperands == {1, 2, 9, 12}
LeftOperands == {1, 4, 5, 6, 8}
RightOperands == {10, 11}

\* The number of inputs given to the interpreter in the second specification.
MaxOperations == 2

UnaryOperators == <<[text |-> "+", token |-> Operator("Plus")],
                    [text |-> "-", token |-> Operator("Minus")],
                    [text |-> "not ", token |-> Operator("Not")]>>

LogicalOperators == <<[text |-> " and ", token |-> Keyword("And")],
                      [text |-> " or ", token |-> Keyword("Or")]>>

\* The input that declares x (a Number) and u (None).
Declerations ==
    Source("let x = 1; let u;",
        Compound(<<Let("x", Number(1)), VariabeDecleration("u", <<>>)>>))

UnaryLine(op, e) ==
    Source(op.text \o e.text \o ";",
           Compound(<<Stmt(UnaryOperator(op.token, e.node))>>))

MulLine(l, r) ==
    Source(l.text \o " * " \o r.text \o ";",
           Compound(<<Stmt(BinOperator(l.node, Operator("Mul"), r.node))>>))

LogicalNode(op, l, r) ==
    Source(l.text \o op.text \o r.text, BinOperator(l.node, op.token, r.node))

Declare ==
    /\ ~panicked
    /\ inputs < MaxOperations
    /\ Finish(interpret(Current, Declerations), Declerations, "interpret")

Unary ==
    /\ ~panicked
    /\ inputs < MaxOperations
    /\ \E o \in DOMAIN UnaryOperators, e \in UnaryOperands :
          LET line == UnaryLine(UnaryOperators[o], Operands[e])
          IN Finish(interpret(Current, line), line, "interpret")

Multiply ==
    /\ ~panicked
    /\ inputs < MaxOperations
    /\ \E a \in StringOperands, b \in NumberOperands, string_first \in BOOLEAN :
          LET line == IF string_first THEN MulLine(Operands[a], Operands[b])
                      ELSE MulLine(Operands[b], Operands[a])
          IN Finish(interpret(Current, line), line, "interpret")

\* Interpreter::visit on the node Parser::logical_and and Parser::logical_or
\* build for Keyword::And and Keyword::Or.
Logical ==
    /\ ~panicked
    /\ inputs < MaxOperations
    /\ \E o \in DOMAIN LogicalOperators, l \in LeftOperands, r \in RightOperands :
          LET input == LogicalNode(LogicalOperators[o], Operands[l], Operands[r])
          IN Finish(I_visit(Current, input.parse.val), input, "visit")

NextOperators == Declare \/ Unary \/ Multiply \/ Logical

SpecOperators == Init /\ [][NextOperators]_vars

(***************************************************************************)
(* The lexer.  A text is a sequence of characters, each a string of        *)
(* length one.                                                             *)
(***************************************************************************)
Digits == <<"0", "1", "2", "3", "4", "5", "6", "7", "8", "9">>

IsDigit(c) == \E i \in DOMAIN Digits : Digits[i] = c

\* 'a'..='z' | 'A'..='Z' | '_'
IsWordStart(c) ==
    c \in {"a", "b", "c", "d", "e", "f", "g", "h", "i", "j", "k", "l", "m",
           "n", "o", "p", "q", "r", "s", "t", "u", "v", "w", "x", "y", "z",
           "A", "B", "C", "D", "E", "F", "G", "H", "I", "J", "K", "L", "M",
           "N", "O", "P", "Q", "R", "S", "T", "U", "V", "W", "X", "Y", "Z",
           "_"}

IsWhitespace(c) == c = " "

\* The tokens of token.rs that carry a value; Operator and Keyword are above.
TokenNumber(num, frac) == [t |-> "Number", num |-> num, frac |-> frac]
TokenIdentifier(iden) == [t |-> "Identifier", iden |-> iden]
TokenString(string) == [t |-> "String", string |-> string]
TokenBoolean(boolean) == [t |-> "Boolean", boolean |-> boolean]
Token(t) == [t |-> t]

\* The characters of a sequence as one string.
RECURSIVE Join(_)
Join(chars) == IF chars = <<>> THEN "" ELSE Head(chars) \o Join(Tail(chars))

\* The characters from position i on.
From(chars, i) == SubSeq(chars, i, Len(chars))

\* str::trim on the text.
RECURSIVE trim_start(_)
trim_start(chars) ==
    IF chars # <<>> /\ IsWhitespace(Head(chars)) THEN trim_start(Tail(chars)) ELSE chars

RECURSIVE trim_end(_)
trim_end(chars) ==
    IF chars # <<>> /\ IsWhitespace(chars[Len(chars)])
    THEN trim_end(SubSeq(chars, 1, Len(chars) - 1)) ELSE chars

trim(chars) == trim_end(trim_start(chars))

\* *self.char_iter.peek().unwrap_or(&'\0'), the empty string for '\0'.
peek_char(chars) == IF chars = <<>> THEN "" ELSE Head(chars)

\* The number of leading characters parse_word takes.
RECURSIVE word_length(_)
word_length(chars) ==
    IF chars # <<>> /\ (IsDigit(Head(chars)) \/ IsWordStart(Head(chars)))
    THEN 1 + word_length(Tail(chars)) ELSE 0

\* The number of leading characters parse_float takes.
RECURSIVE float_length(_)
float_length(chars) ==
    IF chars # <<>> /\ (IsDigit(Head(chars)) \/ Head(chars) = ".")
    THEN 1 + float_length(Tail(chars)) ELSE 0

\* The number of characters parse_string takes, the closing quote included.
RECURSIVE string_length(_, _)
string_length(chars, quote) ==
    IF chars = <<>> THEN 0
    ELSE IF Head(chars) = quote THEN 1
    ELSE 1 + string_length(Tail(chars), quote)

DigitValue(c) == (CHOOSE i \in DOMAIN Digits : Digits[i] = c) - 1

RECURSIVE NaturalOf(_)
NaturalOf(digits) ==
    IF digits = <<>> THEN 0
    ELSE 10 * NaturalOf(SubSeq(digits, 1, Len(digits) - 1))
         + DigitValue(digits[Len(digits)])

RECURSIVE strip_zeros(_)
strip_zeros(digits) ==
    IF digits # <<>> /\ digits[Len(digits)] = "0"
    THEN strip_zeros(SubSeq(digits, 1, Len(digits) - 1)) ELSE digits

Dots(buffer) == {i \in DOMAIN buffer : buffer[i] = "."}

\* buffer.parse::<f64>() on a buffer of digits and dots that starts with a
\* digit: an error when it holds more than one dot, else the number with the
\* digits before the dot as its whole part and those after it as its
\* fraction.
str_parse_f64(buffer) ==
    IF Cardinality(Dots(buffer)) > 1 THEN [ok |-> FALSE, val |-> "invalid float literal"]
    ELSE LET dot == IF Dots(buffer) = {} THEN Len(buffer) + 1
                    ELSE CHOOSE i \in Dots(buffer) : TRUE
         IN [ok |-> TRUE,
             val |-> TokenNumber(NaturalOf(SubSeq(buffer, 1, dot - 1)),
                                 strip_zeros(SubSeq(buffer, dot + 1, Len(buffer))))]

\* match word.as_str() in the word arm of lex.
lex_word(word) ==
    CASE word = "let" -> Keyword("Let")
      [] word = "true" -> TokenBoolean(TRUE)
      [] word = "false" -> TokenBoolean(FALSE)
      [] word = "not" -> Operator("Not")
      [] word = "function" -> Keyword("Function")
      [] OTHER -> TokenIdentifier(word)

\* match_char: the token and the number of characters taken after c.
match_char(peek, char, matched, unmatched) ==
    IF peek = char THEN [token |-> matched, taken |-> 1]
    ELSE [token |-> unmatched, taken |-> 0]

\* The arms of lex for the characters that start an operator.
lex_operator(c, rest) ==
    LET peek == peek_char(rest)
    IN CASE c = "+" -> match_char(peek, "=", Operator("PlusEqual"), Operator("Plus"))
         [] c = "-" -> match_char(peek, "=", Operator("MinusEqual"), Operator("Minus"))
         [] c = "*" ->
               LET first == match_char(peek, "*", Operator("Exponent"), Operator("Mul"))
                   second == match_char(peek_char(From(rest, first.taken + 1)), "=",
                                 IF first.token = Operator("Exponent")
                                 THEN Operator("ExponentEqual") ELSE Operator("MulEqual"),
                                 first.token)
               IN [token |-> second.token, taken |-> first.taken + second.taken]
         [] c = "/" -> match_char(peek, "=", Operator("DivEqual"), Operator("Div"))
         [] c = "%" -> match_char(peek, "=", Operator("ModulusEqual"), Operator("Modulus"))
         [] c = ">" -> match_char(peek, "=", Operator("GreaterThanOrEqual"),
                                  Operator("GreaterThan"))
         [] c = "<" -> match_char(peek, "=", Operator("LessThanOrEqual"),
                                  Operator("LessThan"))
         [] c = "=" -> match_char(peek, "=", Operator("DoubleEqual"), Operator("Equal"))
         [] c = "!" -> match_char(peek, "=", Operator("NotEqual"), Token("Unknown"))
         [] c = "|" -> match_char(peek, "|", Operator("DoublePipe"), Operator("Pipe"))

Punctuation ==
    [c \in {"(", ")", "{", "}", ",", ";"} |->
        CASE c = "(" -> Token("LParen") [] c = ")" -> Token("RParen")
          [] c = "{" -> Token("LBrace") [] c = "}" -> Token("RBrace")
          [] c = "," -> Token("Comma") [] c = ";" -> Token("Semicolon")]

\* The loop of Lexer::lex over the characters left; a conversion failure in
\* parse_float aborts the process (expect).
RECURSIVE lex_loop(_, _)
lex_loop(chars, tokens) ==
    IF chars = <<>> THEN [ok |-> TRUE, tokens |-> Append(tokens, Token("EndOfFile"))]
    ELSE LET c == Head(chars)
             rest == Tail(chars)
         IN CASE IsDigit(c) ->
                    LET n == float_length(rest)
                        float == str_parse_f64(<<c>> \o SubSeq(rest, 1, n))
                    IN IF ~float.ok THEN [ok |-> FALSE, tokens |-> tokens]
                       ELSE lex_loop(From(rest, n + 1), Append(tokens, float.val))
              [] IsWordStart(c) ->
                    LET n == word_length(rest)
                    IN lex_loop(From(rest, n + 1),
                                Append(tokens, lex_word(Join(<<c>> \o SubSeq(rest, 1, n)))))
              [] c \in {"+", "-", "*", "/", "%", ">", "<", "=", "!", "|"} ->
                    LET m == lex_operator(c, rest)
                    IN lex_loop(From(rest, m.taken + 1), Append(tokens, m.token))
              [] c \in {"\"", "'"} ->
                    LET n == string_length(rest, c)
                        closed == n > 0 /\ rest[n] = c
                        string == SubSeq(rest, 1, IF closed THEN n - 1 ELSE n)
                    IN lex_loop(From(rest, n + 1), Append(tokens, TokenString(Join(string))))
              [] c \in DOMAIN Punctuation ->
                    lex_loop(rest, Append(tokens, Punctuation[c]))
              [] OTHER -> lex_loop(rest, tokens)

\* Lexer::new(text) followed by lex().
Lexer_lex(chars) == lex_loop(trim(chars), <<>>)

(***************************************************************************)
(* The parser.  Its state p is the lexer's token queue and the log of the  *)
(* iterations its loops made; a result is Ok(p, node) or Err(p, message).  *)
(***************************************************************************)
Parser_new(tokens) == [toks |-> tokens, loops |-> <<>>]

\* self.tokens.front().unwrap_or(&Token::Unknown)
lexer_peek(p) == IF p.toks = <<>> THEN Token("Unknown") ELSE Head(p.toks)

\* self.tokens.get(index).unwrap_or(&Token::Unknown)
lexer_get_index(p, index) ==
    IF index + 1 <= Len(p.toks) THEN p.toks[index + 1] ELSE Token("Unknown")

\* self.tokens.pop_front(): the state after Lexer::next.
lexer_next(p) == [p EXCEPT !.toks = IF @ = <<>> THEN @ ELSE Tail(@)]

eat(p, token) ==
    IF lexer_peek(p) = token THEN Ok(lexer_next(p), token)
    ELSE Err(p, "Expected token")

\* Node::Number(num) for Token::Number(num).
NumberNode(token) ==
    IF token.frac = <<>> THEN Number(token.num)
    ELSE [type |-> "Number", num |-> token.num, frac |-> token.frac]

\* format!("{:p}", &params): the address of the parameter vector.
lambda_id == "0x0"

\* One iteration of the loop `loop` went from the state `before` to the
\* result r.
Iteration(loop, before, r) ==
    [r EXCEPT !.st = [@ EXCEPT !.loops = Append(@, [loop |-> loop,
                                                    before |-> Len(before.toks),
                                                    after |-> Len(r.st.toks),
                                                    ok |-> r.ok])]]

\* An iteration that succeeds and leaves the queue as it was is repeated for
\* ever.
Repeats(before, r) == r.ok /\ r.st.toks = before.toks
Diverges(p) == Err(p, "Diverges")

\* The binary operators of each level, from logical_or (1) to
\* exponent_expr (7); level 8 is unary_expression.
LevelOperators(level) ==
    CASE level = 1 -> {Keyword("Or")}
      [] level = 2 -> {Keyword("And")}
      [] level = 3 -> {Operator("DoubleEqual"), Operator("NotEqual")}
      [] level = 4 -> {Operator("GreaterThan"), Operator("GreaterThanOrEqual"),
                       Operator("LessThan"), Operator("LessThanOrEqual")}
      [] level = 5 -> {Operator("Plus"), Operator("Minus")}
      [] level = 6 -> {Operator("Mul"), Operator("Div"), Operator("Modulus")}
      [] level = 7 -> {Operator("Exponent")}

AssignmentOperators ==
    {Operator("Equal"), Operator("PlusEqual"), Operator("MinusEqual"),
     Operator("MulEqual"), Operator("DivEqual"), Operator("ExponentEqual"),
     Operator("ModulusEqual")}

\* Mutant: every compound assignment adds.
compound_base_plus(operator) == Operator("Plus")

\* The operator of the BinOperator a compound assignment is turned into.
compound_base(operator) ==
    CASE operator = Operator("PlusEqual") -> Operator("Plus")
      [] operator = Operator("MinusEqual") -> Operator("Minus")
      [] operator = Operator("MulEqual") -> Operator("Mul")
      [] operator = Operator("DivEqual") -> Operator("Div")
      [] operator = Operator("ExponentEqual") -> Operator("Exponent")
      [] operator = Operator("ModulusEqual") -> Operator("Modulus")

\* Mutant: the comma is left in the queue.
argument_list_comma_kept(p) == p

\* Token::Comma => { self.lexer.next(); } in argument_list.
argument_list_comma(p) == lexer_next(p)

\* result?: F on a successful result, the error itself otherwise.
Try(r, F(_)) == IF ~r.ok THEN r ELSE F(r)

\* The result r of one loop iteration that began in the state `before`: the
\* error leaves the loop, F goes on after a success.
Loop(before, r, F(_)) ==
    IF ~r.ok THEN r
    ELSE IF Repeats(before, r) THEN Diverges(r.st)
    ELSE F(r)

RECURSIVE P_rule(_, _)
RECURSIVE P_call_loop(_, _)
RECURSIVE P_unary_expression(_)
RECURSIVE P_level(_, _)
RECURSIVE P_level_loop(_, _, _)
RECURSIVE levels(_, _, _)
RECURSIVE P_block_loop(_, _)
RECURSIVE P_argument_loop(_, _)
RECURSIVE P_params_loop(_, _, _, _)
RECURSIVE P_program_loop(_, _)

\* The end of the LParen arm of value: the result of the expression is
\* returned, error or not, when a RParen follows it.
value_closing(inner) ==
    IF lexer_peek(inner.st) = Token("RParen") THEN [inner EXCEPT !.st = lexer_next(@)]
    ELSE Err(lexer_next(inner.st), "Expected closing ')'")

P_value(p) ==
    LET token == lexer_peek(p)
    IN CASE token.t = "Number" -> Ok(lexer_next(p), NumberNode(token))
         [] token.t = "Identifier" -> Ok(lexer_next(p), Identifier(token.iden))
         [] token.t = "String" -> Ok(lexer_next(p), String(token.string))
         [] token.t = "Boolean" -> Ok(lexer_next(p), Boolean(token.boolean))
         [] token.t = "LParen" -> value_closing(P_rule(lexer_next(p), "expression"))
         [] OTHER -> Err(lexer_next(p), "Invalid Syntax")

\* The loop of argument_list.
P_argument_loop(p, args) ==
    CASE lexer_peek(p) = Token("Comma") ->
            Loop(p, Iteration("argument_list", p, Ok(argument_list_comma(p), args)),
                 LAMBDA r : P_argument_loop(r.st, args))
      [] lexer_peek(p) = Token("RParen") -> Ok(p, args)
      [] OTHER ->
            Loop(p, Iteration("argument_list", p, P_rule(p, "expression")),
                 LAMBDA r : P_argument_loop(r.st, Append(args, r.val)))

P_argument_list(p) ==
    Try(eat(p, Token("LParen")),
        LAMBDA e :
            Try(P_argument_loop(e.st, <<>>),
                LAMBDA args :
                    Try(eat(args.st, Token("RParen")), LAMBDA x : Ok(x.st, args.val))))

\* while let Token::LParen = self.lexer.peek() in call_expression
P_call_loop(p, node) ==
    IF lexer_peek(p) = Token("LParen")
    THEN Loop(p, Iteration("call_expression", p, P_argument_list(p)),
              LAMBDA arguments : P_call_loop(arguments.st, FunctionCall(node, arguments.val)))
    ELSE Ok(p, node)

P_call_expression(p) ==
    Try(P_value(p), LAMBDA node : P_call_loop(node.st, node.val))

P_unary_expression(p) ==
    IF lexer_peek(p) \in {Operator("Plus"), Operator("Minus"), Operator("Not")}
    THEN Try(P_unary_expression(lexer_next(p)),
             LAMBDA expression : Ok(expression.st,
                                    UnaryOperator(lexer_peek(p), expression.val)))
    ELSE P_call_expression(p)

\* The loop of logical_or, logical_and, equality, comparison, addition_expr,
\* multiplication_expr and exponent_expr: the right operand is parsed by the
\* function of the next level.
P_level_loop(p, node, level) ==
    IF lexer_peek(p) \in LevelOperators(level)
    THEN Loop(p, Iteration("binary", p, P_level(lexer_next(p), level + 1)),
              LAMBDA right : P_level_loop(right.st,
                                          BinOperator(node, lexer_peek(p), right.val),
                                          level))
    ELSE Ok(p, node)

\* `let mut node = self.<next level>()?;` followed by the loop, for the
\* levels from `level` down to `lowest`: each function begins by calling the
\* one of the next level, so the loops run innermost first on the node the
\* one before returned.
levels(node, level, lowest) ==
    IF ~node.ok \/ level < lowest THEN node
    ELSE levels(P_level_loop(node.st, node.val, level), level - 1, lowest)

\* logical_or (1), logical_and (2), equality (3), comparison (4),
\* addition_expr (5), multiplication_expr (6), exponent_expr (7),
\* unary_expression (8).
P_level(p, level) == levels(P_unary_expression(p), 7, level)

\* The value assigned: the right-hand side, or for a compound operator the
\* BinOperator of the identifier and the right-hand side.
assignment_value(expression, operator, value) ==
    IF operator = Operator("Equal") THEN value
    ELSE BinOperator(expression, compound_base(operator), value)

assignment_to(expression) ==
    IF lexer_peek(expression.st) \in AssignmentOperators
    THEN IF expression.val.type = "Identifier"
         THEN Try(P_rule(lexer_next(expression.st), "expression"),
                  LAMBDA value :
                      Ok(value.st,
                         AssignmentExpr(expression.val.iden,
                                        assignment_value(expression.val,
                                                         lexer_peek(expression.st),
                                                         value.val))))
         ELSE Err(expression.st, "Invalid assignment operator")
    ELSE expression

P_assignment(p) == Try(P_level(p, 1), LAMBDA expression : assignment_to(expression))

\* One parameter of lambda_parameters or parameter_list and what follows it.
parameter(p, closing) ==
    IF lexer_peek(lexer_next(p)) = closing THEN Ok(lexer_next(p), lexer_peek(p).iden)
    ELSE IF lexer_peek(lexer_next(p)) = Token("Comma")
    THEN Ok(lexer_next(lexer_next(p)), lexer_peek(p).iden)
    ELSE Err(lexer_next(p), "Expected ')' or ','")

\* lambda_parameters (closing = Pipe) and parameter_list (closing = RParen):
\* while let Token::Identifier(identifier) = self.lexer.peek()
P_params_loop(p, params, closing, loop) ==
    IF lexer_peek(p).t = "Identifier"
    THEN Loop(p, Iteration(loop, p, parameter(p, closing)),
              LAMBDA identifier :
                  P_params_loop(identifier.st, Append(params, identifier.val), closing,
                                loop))
    ELSE Ok(p, params)

\* eat(opening), the parameters, eat(closing).
parameters(p, opening, closing, loop) ==
    Try(eat(p, opening),
        LAMBDA e :
            Try(P_params_loop(e.st, <<>>, closing, loop),
                LAMBDA params :
                    Try(eat(params.st, closing), LAMBDA x : Ok(x.st, params.val))))

P_lambda_parameters(p) ==
    parameters(p, Operator("Pipe"), Operator("Pipe"), "lambda_parameters")

P_parameter_list(p) ==
    parameters(p, Token("LParen"), Token("RParen"), "parameter_list")

\* The loop of block.
P_block_loop(p, declarations) ==
    IF lexer_peek(p) = Token("RBrace") THEN Ok(p, declarations)
    ELSE Loop(p, Iteration("block", p, P_rule(p, "decerlation")),
              LAMBDA r : P_block_loop(r.st, Append(declarations, r.val)))

P_block(p) ==
    Try(eat(p, Token("LBrace")),
        LAMBDA e :
            Try(P_block_loop(e.st, <<>>),
                LAMBDA declarations :
                    Try(eat(declarations.st, Token("RBrace")),
                        LAMBDA x : Ok(x.st, Block(declarations.val)))))

P_lambda_block(p) ==
    IF lexer_peek(p) = Token("LBrace") THEN P_block(p)
    ELSE Try(P_rule(p, "expression"), LAMBDA e : Ok(e.st, Block(<<e.val>>)))

lambda_params(p) ==
    IF lexer_peek(p) = Operator("Pipe") THEN P_lambda_parameters(p)
    ELSE Try(eat(p, Operator("DoublePipe")), LAMBDA e : Ok(e.st, <<>>))

P_lambda(p) ==
    Try(lambda_params(p),
        LAMBDA params :
            Try(P_lambda_block(params.st),
                LAMBDA block : Ok(block.st, Lambda(lambda_id, params.val, block.val))))

P_expression(p) ==
    CASE lexer_peek(p) = Operator("Pipe") ->
            IF lexer_get_index(p, 1).t = "Identifier" THEN P_lambda(p)
            ELSE Err(p, "Invalid Syntax")
      [] lexer_peek(p) = Operator("DoublePipe") -> P_lambda(p)
      [] OTHER -> P_assignment(p)

P_expression_statment(p) ==
    Try(P_expression(p),
        LAMBDA expr :
            Try(eat(expr.st, Token("Semicolon")),
                LAMBDA e : Ok(e.st, Expression(expr.val))))

\* What follows `let identifier`; p is the state after the identifier.
variable_decleration_rest(p, identifier) ==
    CASE lexer_peek(p) = Operator("Equal") ->
            Try(P_expression(lexer_next(p)),
                LAMBDA value :
                    Try(eat(value.st, Token("Semicolon")),
                        LAMBDA e : Ok(e.st, VariabeDecleration(identifier,
                                                               <<value.val>>))))
      [] lexer_peek(p) = Token("Semicolon") ->
            Ok(lexer_next(p), VariabeDecleration(identifier, <<>>))
      [] OTHER -> Err(lexer_next(p), "Expected '=' or ';'.")

P_variable_decleration(p) ==
    Try(eat(p, Keyword("Let")),
        LAMBDA e :
            IF lexer_peek(e.st).t = "Identifier"
            THEN variable_decleration_rest(lexer_next(e.st), lexer_peek(e.st).iden)
            ELSE Err(e.st, "Expected identifier"))

P_function_decleration(p) ==
    Try(eat(p, Keyword("Function")),
        LAMBDA e :
            IF lexer_peek(e.st).t = "Identifier"
            THEN Try(P_parameter_list(lexer_next(e.st)),
                     LAMBDA param_list :
                         Try(P_block(param_list.st),
                             LAMBDA block_node :
                                 Ok(block_node.st,
                                    FunctionDecleration(lexer_peek(e.st).iden,
                                                        param_list.val,
                                                        block_node.val))))
            ELSE Err(e.st, "Expected identifier"))

P_decerlation(p) ==
    CASE lexer_peek(p) = Keyword("Let") -> P_variable_decleration(p)
      [] lexer_peek(p) = Keyword("Function") -> P_function_decleration(p)
      [] OTHER -> P_expression_statment(p)

\* self.expression() and self.decerlation() where the grammar is recursive.
P_rule(p, rule) ==
    IF rule = "expression" THEN P_expression(p) ELSE P_decerlation(p)

P_program_loop(p, declarations) ==
    IF lexer_peek(p) = Token("EndOfFile") THEN Ok(p, declarations)
    ELSE Loop(p, Iteration("program", p, P_decerlation(p)),
              LAMBDA r : P_program_loop(r.st, Append(declarations, r.val)))

P_program(p) ==
    Try(P_program_loop(p, <<>>),
        LAMBDA declarations : Ok(declarations.st, Compound(declarations.val)))

\* Parser::parse on the queue Parser::new left.
P_parse(tokens) ==
    LET r == P_program(Parser_new(tokens))
    IN [ok |-> r.ok, val |-> r.val, loops |-> r.st.loops]

(***************************************************************************)
(* Third specification: Parser::new on a source text, then parse().        *)
(***************************************************************************)
MaxChars == 3
MaxWords == 3

\* The sequences over S of length n at most.
RECURSIVE SeqsUpTo(_, _)
SeqsUpTo(S, n) ==
    IF n = 0 THEN {<<>>}
    ELSE LET shorter == SeqsUpTo(S, n - 1)
         IN shorter \cup {Append(s, x) : s \in {t \in shorter : Len(t) = n - 1}, x \in S}

\* The words of a line with one space between them.
RECURSIVE Spaced(_)
Spaced(words) ==
    IF words = <<>> THEN <<>>
    ELSE IF Len(words) = 1 THEN words[1]
    ELSE words[1] \o <<" ">> \o Spaced(Tail(words))

\* Texts of single characters.
CharAlphabet == {"1", ".", "a", "\"", " "}
CharTexts == SeqsUpTo(CharAlphabet, MaxChars)

\* Texts of one word.
ReservedWords ==
    {<<"l", "e", "t">>, <<"f", "u", "n", "c", "t", "i", "o", "n">>, <<"a", "n", "d">>,
     <<"o", "r">>, <<"n", "o", "n", "e">>, <<"t", "r", "u", "e">>,
     <<"f", "a", "l", "s", "e">>, <<"n", "o", "t">>}
OtherWords ==
    {<<"x">>, <<"l", "e", "t", "s">>, <<"n", "o", "t", "_">>, <<"_", "o", "r">>,
     <<"T", "r", "u", "e">>, <<"a", "n", "d", "1">>}
WordTexts == ReservedWords \cup OtherWords

\* The binary operators as they are written, with the token the parser
\* expects for each and the level of the function that parses it.
BinaryOperators ==
    <<[text |-> <<"o", "r">>, token |-> Keyword("Or"), level |-> 1],
      [text |-> <<"a", "n", "d">>, token |-> Keyword("And"), level |-> 2],
      [text |-> <<"=", "=">>, token |-> Operator("DoubleEqual"), level |-> 3],
      [text |-> <<"!", "=">>, token |-> Operator("NotEqual"), level |-> 3],
      [text |-> <<">">>, token |-> Operator("GreaterThan"), level |-> 4],
      [text |-> <<">", "=">>, token |-> Operator("GreaterThanOrEqual"), level |-> 4],
      [text |-> <<"<">>, token |-> Operator("LessThan"), level |-> 4],
      [text |-> <<"<", "=">>, token |-> Operator("LessThanOrEqual"), level |-> 4],
      [text |-> <<"+">>, token |-> Operator("Plus"), level |-> 5],
      [text |-> <<"-">>, token |-> Operator("Minus"), level |-> 5],
      [text |-> <<"*">>, token |-> Operator("Mul"), level |-> 6],
      [text |-> <<"/">>, token |-> Operator("Div"), level |-> 6],
      [text |-> <<"%">>, token |-> Operator("Modulus"), level |-> 6],
      [text |-> <<"*", "*">>, token |-> Operator("Exponent"), level |-> 7]>>

\* a op1 b op2 c ;
BinaryLine(i, j) ==
    Spaced(<<<<"a">>, BinaryOperators[i].text, <<"b">>, BinaryOperators[j].text,
             <<"c">>, <<";">>>>)

\* Prefix operators and calls next to `**`.
UnaryLines ==
    {Spaced(<<<<"-">>, <<"a">>, <<"*", "*">>, <<"b">>, <<";">>>>),
     Spaced(<<<<"a">>, <<"*", "*">>, <<"-">>, <<"b">>, <<";">>>>),
     Spaced(<<<<"n", "o", "t">>, <<"a">>, <<"(">>, <<"b">>, <<")">>, <<";">>>>),
     Spaced(<<<<"-">>, <<"-">>, <<"a">>, <<"(">>, <<")">>, <<"(">>, <<"b">>, <<")">>,
              <<";">>>>)}

OperatorTexts ==
    {BinaryLine(i, j) : i, j \in DOMAIN BinaryOperators} \cup UnaryLines

\* The assignment operators as they are written.
AssignmentTexts ==
    <<[text |-> <<"=">>, token |-> Operator("Equal")],
      [text |-> <<"+", "=">>, token |-> Operator("PlusEqual")],
      [text |-> <<"-", "=">>, token |-> Operator("MinusEqual")],
      [text |-> <<"*", "=">>, token |-> Operator("MulEqual")],
      [text |-> <<"/", "=">>, token |-> Operator("DivEqual")],
      [text |-> <<"%", "=">>, token |-> Operator("ModulusEqual")],
      [text |-> <<"*", "*", "=">>, token |-> Operator("ExponentEqual")]>>

\* Right-hand sides with the node each is parsed into when it stands alone.
RightHandSides ==
    <<[text |-> <<"1">>, node |-> Number(1)],
      [text |-> Spaced(<<<<"a">>, <<"+">>, <<"b">>, <<"*">>, <<"2">>>>),
       node |-> BinOperator(Identifier("a"), Operator("Plus"),
                            BinOperator(Identifier("b"), Operator("Mul"), Number(2)))],
      [text |-> Spaced(<<<<"a">>, <<"<">>, <<"b">>>>),
       node |-> BinOperator(Identifier("a"), Operator("LessThan"), Identifier("b"))]>>

\* x op rhs ;
AssignmentLine(i, k) ==
    Spaced(<<<<"x">>, AssignmentTexts[i].text, RightHandSides[k].text, <<";">>>>)

\* x op1 y op2 rhs ;
ChainedLine(i, j, k) ==
    Spaced(<<<<"x">>, AssignmentTexts[i].text, <<"y">>, AssignmentTexts[j].text,
             RightHandSides[k].text, <<";">>>>)

AssignmentLines ==
    {AssignmentLine(i, k) : i \in DOMAIN AssignmentTexts, k \in DOMAIN RightHandSides}
    \cup {ChainedLine(i, j, 1) : i, j \in DOMAIN AssignmentTexts}
    \cup {Spaced(<<<<"1">>, <<"+", "=">>, <<"2">>, <<";">>>>),
          Spaced(<<<<"x">>, <<"+">>, <<"y">>, <<"=">>, <<"2">>, <<";">>>>)}

\* Texts of a few words, complete or cut off anywhere.
WordAlphabet ==
    {<<"f">>, <<"1">>, <<"(">>, <<")">>, <<"{">>, <<"}">>, <<",">>, <<";">>, <<"|">>,
     <<"|", "|">>, <<"+">>, <<"=">>, <<"l", "e", "t">>,
     <<"f", "u", "n", "c", "t", "i", "o", "n">>}
WordSequences == {Spaced(ws) : ws \in SeqsUpTo(WordAlphabet, MaxWords)}

\* Longer texts that end inside a block, an argument list or a parameter list.
CutTexts ==
    {Spaced(<<<<"f", "u", "n", "c", "t", "i", "o", "n">>, <<"f">>, <<"(">>, <<"a">>, <<",">>>>),
     Spaced(<<<<"f", "u", "n", "c", "t", "i", "o", "n">>, <<"f">>, <<"(">>, <<")">>, <<"{">>,
              <<"1">>, <<";">>>>),
     Spaced(<<<<"f">>, <<"(">>, <<"1">>, <<",">>, <<",">>, <<"2">>>>),
     Spaced(<<<<"|">>, <<"a">>, <<",">>, <<"b">>>>),
     Spaced(<<<<"|", "|">>, <<"{">>, <<"f">>, <<"(">>, <<")">>, <<";">>>>),
     Spaced(<<<<"(">>, <<"(">>, <<"1">>, <<")">>>>)}

Texts ==
    CharTexts \cup WordTexts \cup OperatorTexts \cup AssignmentLines
    \cup WordSequences \cup CutTexts

InitParser ==
    /\ InitInterpreter
    /\ src_text \in Texts
    /\ lex_tokens = <<>>
    /\ parse_result = NoParse
    /\ stage = "text"

\* Parser::new: the text is trimmed and lexed; a failed conversion in
\* parse_float aborts the process.
LexText ==
    /\ stage = "text"
    /\ LET lexed == Lexer_lex(src_text)
       IN /\ lex_tokens' = lexed.tokens
          /\ stage' = IF lexed.ok THEN "lexed" ELSE "aborted"
    /\ UNCHANGED <<scopes, scope, sa_options, envs, env, interpreter_options, panicked,
                   result, inputs, last, g_decl, g_calls, g_created, g_out, g_assign,
                   g_blocks, g_binds, g_edecl, g_fcalls, g_stack, g_unary, g_binops,
                   g_idents, g_args, g_removed, src_text, parse_result, x_bound, hinted>>

\* Parser::parse on the tokens of the text.
ParseTokens ==
    /\ stage = "lexed"
    /\ parse_result' = P_parse(lex_tokens)
    /\ stage' = "parsed"
    /\ UNCHANGED <<scopes, scope, sa_options, envs, env, interpreter_options, panicked,
                   result, inputs, last, g_decl, g_calls, g_created, g_out, g_assign,
                   g_blocks, g_binds, g_edecl, g_fcalls, g_stack, g_unary, g_binops,
                   g_idents, g_args, g_removed, src_text, lex_tokens, x_bound, hinted>>

NextParser == LexText \/ ParseTokens

SpecParser == InitParser /\ [][NextParser]_vars

(***************************************************************************)
(* Properties.                                                             *)
(***************************************************************************)
IsGlobalScope(s) == scopes[s].scope_level = 1 /\ scopes[s].enclosing_scope = 0
IsGlobalEnv(e) == envs[e].enclosing_enviroment = 0
Returned(kind) == ~result.ok /\ result.val.kind = kind

\* C1: after every input given through interpret that returns Ok (in a run of
\* interpret calls only), the analyzer's scope is the global scope and the
\* interpreter's environment is the global environment.
C1_GlobalAfterOk ==
    (~hinted /\ last.mode = "interpret" /\ result.ok) =>
        (IsGlobalScope(scope) /\ IsGlobalEnv(env))

\* C2: every call of a user function or lambda that returns normally leaves
\* the environment that was current immediately before the call.
C2_CallRestoresCaller ==
    \A i \in DOMAIN g_calls : g_calls[i].ok => g_calls[i].exit = g_calls[i].caller

\* C3: when a call fails and interpret has returned the error, the current
\* environment is the one that was current before the (outermost) call.
C3_FailedCallRestoresCaller ==
    (~result.ok /\ ~panicked /\ g_calls # <<>> /\ ~g_calls[Len(g_calls)].ok) =>
        env = g_calls[Len(g_calls)].caller

\* C4: every function value captures the environment current at its creation,
\* and every call evaluates the body in the fresh environment it created,
\* whose parent is the captured environment.
C4_BodyInFreshChildOfCaptured ==
    /\ \A i \in DOMAIN g_created : g_created[i].closure = g_created[i].env
    /\ \A i \in DOMAIN g_calls :
          /\ g_calls[i].parent = g_calls[i].closure
          /\ g_calls[i].body_env # 0 => g_calls[i].body_env = g_calls[i].fresh

\* C5: a hint (interpret_with_option with both options set) leaves every
\* environment, every scope, the current scope and the current environment
\* as they were.
C5_HintChangesNothing ==
    [][last'.mode = "hint" =>
          (envs' = envs /\ scopes' = scopes /\ env' = env /\ scope' = scope)]_vars

\* C6: once an Ok input bound x by a top-level `let`, a later input `x;`
\* returns the value last bound or assigned to x.
C6_TopLevelNameStaysBound ==
    (last.mode = "interpret" /\ last.text = "x;" /\ x_bound # <<>>) =>
        (result.ok /\ result.val = x_bound[1])

\* C7 as stated: a `let` or `function` is rejected exactly when its name has a
\* symbol in the current scope, and a rejected declaration adds no symbol.
C7_RejectedIffInCurrentScope ==
    \A i \in DOMAIN g_decl :
        /\ g_decl[i].rejected <=> g_decl[i].in_current
        /\ g_decl[i].rejected => ~g_decl[i].added

\* C7 amended: with disable_decleration unset a `let` or `function` is
\* rejected, with a SyntaxError, exactly when its name has a symbol in the
\* current scope (a symbol in an enclosing scope alone does not count), and a
\* rejected declaration adds no symbol; with disable_decleration set no
\* declaration is rejected and none adds a symbol.
C7_RejectedIffInCurrentScopeUnlessDisabled ==
    /\ \A i \in DOMAIN g_decl :
          IF g_decl[i].disabled
          THEN ~g_decl[i].rejected /\ ~g_decl[i].added
          ELSE /\ g_decl[i].rejected <=> g_decl[i].in_current
               /\ g_decl[i].rejected => ~g_decl[i].added
               /\ ~g_decl[i].rejected => g_decl[i].added
    /\ (\E i \in DOMAIN g_decl : g_decl[i].rejected) => Returned("SyntaxError")

\* A declaration whose name is a built-in of the enclosing global scope was
\* accepted at level 2, and the same name was then rejected in that scope.
C7_Witness ==
    \E i, j \in DOMAIN g_decl :
        /\ i < j
        /\ g_decl[i].name = "print" /\ g_decl[i].level = 2
        /\ g_decl[i].in_chain /\ ~g_decl[i].in_current /\ ~g_decl[i].rejected
        /\ g_decl[j].name = "print" /\ g_decl[j].in_current /\ g_decl[j].rejected
        /\ Returned("SyntaxError")

\* C8: an input with an assignment to a name that is a symbol of no scope
\* fails with a ReferenceError and changes no environment and no scope.
C8_UndefinedAssignmentHasNoEffect ==
    [][(\E i \in DOMAIN g_assign' : g_assign'[i].nowhere) =>
          /\ ~result'.ok /\ result'.val.kind = "ReferenceError"
          /\ envs' = envs
          /\ scopes' = scopes]_vars

\* C9: after a top-level `let x = error(1);` whose initializer failed, x has no
\* symbol in the current scope and no binding in the current environment.
C9_FailedLetLeavesNameUnbound ==
    (last.mode = "interpret" /\ last.text = "let x = error(1);"
        /\ Returned("UnknownError")) =>
        /\ SymbolTable_look_up(scopes, scope, "x", TRUE) = <<>>
        /\ Enviroment_look_up(envs, env, "x", TRUE) = <<>>

\* The value of a statement sequence as the claim states it: the last value
\* that is not None, and None when there is none.
LastNonNone(vals) ==
    LET is == {i \in DOMAIN vals : vals[i].tag # "None"}
    IN IF is = {} THEN ValNone ELSE vals[CHOOSE i \in is : \A j \in is : j <= i]

\* C10: a Compound or a Block evaluates to the value of its last statement
\* whose value is not None, and to None when every statement yields None.
C10_LastNonNoneValue ==
    \A i \in DOMAIN g_blocks : g_blocks[i].result = LastNonNone(g_blocks[i].vals)

\* `7; let x = 1;` returned 7: the declaration's None did not replace it.
C10_Witness ==
    /\ last.text = "7; let x = 1;"
    /\ result.ok /\ result.val = ValNumber(7)
    /\ \E i \in DOMAIN g_blocks :
          /\ Len(g_blocks[i].vals) = 2
          /\ g_blocks[i].vals[1] = ValNumber(7)
          /\ g_blocks[i].vals[2] = ValNone

\* C11: a call binds every parameter in the call's own fresh environment, and
\* a parameter without an argument to None.
C11_ParamsBoundInFreshEnv ==
    \A i \in DOMAIN g_binds :
        /\ g_binds[i].env = g_binds[i].fresh
        /\ ~g_binds[i].supplied => g_binds[i].value = ValNone

\* C12: with disable_calls set, every FunctionCall node evaluated returns
\* UnknownError("Calls Disabled") and neither changes a scope or an
\* environment nor prints: no callee, argument or built-in was evaluated.
C12_DisabledCallsHaveNoEffect ==
    /\ \A i \in DOMAIN g_fcalls :
          /\ ~g_fcalls[i].ok
          /\ g_fcalls[i].val = NekoError("UnknownError", "Calls Disabled")
          /\ ~g_fcalls[i].changed
    /\ interpreter_options.disable_calls =>
          g_calls = <<>> /\ g_binds = <<>> /\ g_out = <<>>

\* The hint line `print(f(x = 5));` was given when x was bound: it returned
\* Calls Disabled and the argument's assignment did not take place.
C12_Witness ==
    /\ last = [text |-> "print(f(x = 5));", mode |-> "hint", parsed |-> TRUE]
    /\ x_bound # <<>>
    /\ result = [ok |-> FALSE, val |-> NekoError("UnknownError", "Calls Disabled")]
    /\ g_fcalls # <<>>
    /\ g_assign = <<>>

\* A name is a symbol of some scope or bound in some environment.
Known(name) ==
    \/ \E s \in DOMAIN scopes : name \in DOMAIN scopes[s].symbols
    \/ \E e \in DOMAIN envs : name \in DOMAIN envs[e].values

\* C13: with disable_decleration set, a `let` or `function` statement adds no
\* symbol and no binding in either pass and evaluates to None; q and qf, which
\* only such inputs declare, are undefined in the rest of the input (`q;`
\* after `let q = 1;` is a ReferenceError) and ever after.
C13_DisabledDeclerationsBindNothing ==
    /\ \A i \in DOMAIN g_decl :
          g_decl[i].disabled => ~g_decl[i].added /\ ~g_decl[i].rejected
    /\ \A i \in DOMAIN g_edecl :
          g_edecl[i].disabled =>
              /\ ~g_edecl[i].changed
              /\ g_edecl[i].env = 0
              /\ g_edecl[i].val = ValNone
    /\ ~Known("q") /\ ~Known("qf")
    /\ last.text = "let q = 1; q;" =>
          result = [ok |-> FALSE,
                    val |-> NekoError("ReferenceError", "q is not defined")]
    /\ last.text = "let q = 1; function qf() { 1; } 2;" =>
          result = [ok |-> TRUE, val |-> ValNumber(2)]

\* The hint line with a `let` and a `function` was given: both passes went
\* through both statements and the line evaluated to its last statement.
C13_Witness ==
    /\ last = [text |-> "let q = 1; function qf() { 1; } 2;", mode |-> "hint",
               parsed |-> TRUE]
    /\ Len(g_decl) = 2 /\ g_decl[1].disabled /\ g_decl[2].disabled
    /\ Len(g_edecl) = 2 /\ g_edecl[1].disabled /\ g_edecl[2].disabled
    /\ result = [ok |-> TRUE, val |-> ValNumber(2)]

\* The left operand alone determines the result of `and` (a falsy left) and of
\* `or` (a truthy left).
Determined(o) ==
    \/ o.operator = Keyword("And") /\ ~to_bool(o.left)
    \/ o.operator = Keyword("Or") /\ to_bool(o.left)

C15_NotOfEveryKind ==
    \A i \in DOMAIN g_unary :
        LET o == g_unary[i]
        IN o.operator = Operator("Not") =>
              o.ok /\ o.val = ValBoolean(~to_bool(o.value))

\* C16: unary `+x` returns x when x is a Number and a TypeError when x is of
\* any other kind; unary `-x` returns the negated Number and a TypeError for
\* any other kind.
C16_UnarySignNeedsNumber ==
    \A i \in DOMAIN g_unary :
        LET o == g_unary[i]
        IN o.operator \in {Operator("Plus"), Operator("Minus")} =>
              IF o.value.tag = "Number"
              THEN /\ o.ok
                   /\ o.val = IF o.operator = Operator("Plus") THEN o.value
                              ELSE [o.value EXCEPT !.num = 0 - o.value.num]
              ELSE ~o.ok /\ o.val.kind = "TypeError"

\* The String s repeated n times.
RECURSIVE Repeated(_, _)
Repeated(s, n) == IF n <= 0 THEN "" ELSE Repeated(s, n - 1) \o s

\* C17: for a String s and a Number n, `s * n` and `n * s` return s repeated
\* n times when n is a non-negative integer and a TypeError when n is
\* negative or not an integer, whatever the order of the operands.
C17_RepetitionNeedsNaturalNumber ==
    \A i \in DOMAIN g_binops :
        LET o == g_binops[i]
            string_first == o.left.tag = "String"
            s == IF string_first THEN o.left ELSE o.right
            n == IF string_first THEN o.right ELSE o.left
        IN /\ o.operator = Operator("Mul")
           /\ o.right_ok
           /\ {o.left.tag, o.right.tag} = {"String", "Number"}
           => IF n.class = "finite" /\ n.num >= 0
              THEN o.ok /\ o.val = ValString(Repeated(s.string, n.num))
              ELSE ~o.ok /\ o.val.kind = "TypeError"

\* C18: `let x` evaluated inside a function or lambda body binds x only in the
\* environment of that call, also when the `let` comes after a call to another
\* function, so that no binding of x in an outer environment changes.
C18_LetBindsInOwnEnv ==
    \A i \in DOMAIN g_edecl :
        g_edecl[i].own # 0 /\ ~g_edecl[i].disabled =>
            g_edecl[i].env = g_edecl[i].own

\* C19: every parse failure, such as the one of `1 = 2;`, is returned by
\* interpret as an error of kind SyntaxError.
C19_ParseFailureIsSyntaxError ==
    last.mode = "interpret" /\ ~last.parsed => Returned("SyntaxError")

\* C20: operands are evaluated left to right and the error returned is the one
\* of the leftmost failing expression: `ya + yb;`, neither name defined,
\* returns the error of ya.
C20_LeftmostErrorReturned ==
    last = [text |-> "ya + yb;", mode |-> "interpret", parsed |-> TRUE] =>
        result = [ok |-> FALSE,
                  val |-> NekoError("ReferenceError", "ya is not defined")]

\* C21: when the semantic pass of an input fails inside a function or lambda
\* body, the analyzer's current scope after the failure is the scope that was
\* current before the input: a failing input leaves the current scope as it
\* was, so that the next input is analyzed at scope_level 1.
C21_FailureRestoresScope ==
    [][(~result'.ok /\ ~panicked') =>
          (scope' = scope /\ scopes'[scope'].scope_level = scopes[scope].scope_level)]_vars

\* C22: every Identifier the evaluator evaluates was resolved before by the
\* semantic pass of the same input, also inside a `let` initializer and in
\* the callee and the arguments of a call.
C22_EvaluatedIdentifiersWereAnalyzed ==
    \A i \in DOMAIN g_idents :
        g_idents[i].pass = "evaluator" =>
            \E j \in 1..(i - 1) :
                g_idents[j] = IdentObs("semantic", g_idents[i].name)

\* The names a program can declare at top level.
IsBuiltIn(name) == name \in {"print", "error"}

\* C27: after any sequence of inputs a name has a Var or Function symbol in
\* the global scope table if and only if it is bound in the global
\* environment.
C27_GlobalSymbolsAreGlobalBindings ==
    ~panicked =>
        {n \in DOMAIN scopes[1].symbols : ~IsBuiltIn(n)}
            = {n \in DOMAIN envs[1].values : ~IsBuiltIn(n)}

\* C28: the arguments of a call of a user function or lambda are evaluated in
\* the caller's environment.
C28_ArgumentsInCallerEnv ==
    \A i \in DOMAIN g_args : g_args[i].env = g_args[i].caller

\* C29: a failing `let name` inside a function body never removes the symbol
\* of a different declaration of the same name: what it removes is not a
\* symbol of the global scope.
C29_FailedLetRemovesOwnSymbol ==
    \A i \in DOMAIN g_removed :
        g_removed[i].in_body /\ g_removed[i].removed => g_removed[i].level > 1

\* The token the lexer is to give for a word.
ClaimedWordToken(word) ==
    CASE word = "let" -> Keyword("Let")
      [] word = "function" -> Keyword("Function")
      [] word = "and" -> Keyword("And")
      [] word = "or" -> Keyword("Or")
      [] word = "none" -> Keyword("None")
      [] word = "true" -> TokenBoolean(TRUE)
      [] word = "false" -> TokenBoolean(FALSE)
      [] word = "not" -> Operator("Not")
      [] OTHER -> TokenIdentifier(word)

\* C25: the lexer maps `let`, `function`, `and`, `or`, `none` to the Keyword
\* tokens Let, Function, And, Or, None, `true` and `false` to Boolean, `not`
\* to Operator(Not) and every other word to Identifier: a text that is one
\* word lexes to that token followed by EndOfFile.
C25_WordsLexAsClaimed ==
    (stage = "lexed" /\ src_text \in WordTexts) =>
        lex_tokens = <<ClaimedWordToken(Join(src_text)), Token("EndOfFile")>>

\* C26: for every source text lex() completes without aborting, also on a
\* run of digits and dots with more than one dot, and the tokens it yields
\* hold exactly one EndOfFile, the last one.
C26_LexNeverAborts ==
    /\ stage # "aborted"
    /\ stage \in {"lexed", "parsed"} =>
          {i \in DOMAIN lex_tokens : lex_tokens[i] = Token("EndOfFile")} = {Len(lex_tokens)}

\* The operator a compound assignment operator is to be turned into.
BaseOperators ==
    <<Operator("Equal"), Operator("Plus"), Operator("Minus"), Operator("Mul"),
      Operator("Div"), Operator("Modulus"), Operator("Exponent")>>

\* Assign{name, rhs} for `=`, Assign{name, BinOp{Identifier(name), base, rhs}}
\* for the compound operator i.
ClaimedAssignment(name, i, rhs) ==
    AssignmentExpr(name, IF i = 1 THEN rhs
                         ELSE BinOperator(Identifier(name), BaseOperators[i], rhs))

ParsedAs(text, node) ==
    (stage = "parsed" /\ src_text = text) =>
        (parse_result.ok /\ parse_result.val = Compound(<<Expression(node)>>))

\* C23: `name op= rhs` is parsed into Assign{name, BinOp{Identifier(name),
\* base operator, rhs}} for each of += -= *= /= %= **=, `name = rhs` into
\* Assign{name, rhs}; the right-hand side is a full expression, so that
\* chained assignments nest to the right.
C23_CompoundAssignmentDesugars ==
    /\ \A i \in DOMAIN AssignmentTexts, k \in DOMAIN RightHandSides :
          ParsedAs(AssignmentLine(i, k), ClaimedAssignment("x", i, RightHandSides[k].node))
    /\ \A i, j \in DOMAIN AssignmentTexts :
          ParsedAs(ChainedLine(i, j, 1),
                   ClaimedAssignment("x", i,
                       ClaimedAssignment("y", j, RightHandSides[1].node)))

C23_Witness ==
    /\ stage = "parsed"
    /\ src_text = ChainedLine(7, 3, 1)
    /\ parse_result.ok
    /\ parse_result.val.nodes[1].node.value.operator = Operator("Exponent")

\* The tree `a op1 b op2 c` is to be parsed into: the operator of the higher
\* level binds tighter, operators of one level group to the left.
ClaimedTree(i, j) ==
    IF BinaryOperators[i].level >= BinaryOperators[j].level
    THEN BinOperator(BinOperator(Identifier("a"), BinaryOperators[i].token, Identifier("b")),
                     BinaryOperators[j].token, Identifier("c"))
    ELSE BinOperator(Identifier("a"), BinaryOperators[i].token,
                     BinOperator(Identifier("b"), BinaryOperators[j].token, Identifier("c")))

\* C24: every binary operator is left-associative, `**` included, and an
\* operator of a higher level binds tighter, in the order or < and <
\* equality < comparison < addition < multiplication < exponent: the text
\* `a op1 b op2 c ;` is parsed into the tree that follows from it.
C24_LeftAssociativeWithPrecedence ==
    \A i, j \in DOMAIN BinaryOperators : ParsedAs(BinaryLine(i, j), ClaimedTree(i, j))

\* C30: parse() terminates on every token sequence: each iteration of the
\* loops in program, block, argument_list, parameter_list, lambda_parameters,
\* call_expression and of the binary-operator loops either consumed at least
\* one token or returned an error.
C30_ParseTerminates ==
    stage = "parsed" =>
        /\ \A i \in DOMAIN parse_result.loops :
              \/ ~parse_result.loops[i].ok
              \/ parse_result.loops[i].after < parse_result.loops[i].before
        /\ parse_result.ok \/ parse_result.val # "Diverges"

C30_Witness ==
    /\ stage = "parsed"
    /\ src_text = Spaced(<<<<"f">>, <<"(">>, <<"1">>, <<",">>, <<",">>, <<"2">>>>)
    /\ ~parse_result.ok
    /\ Len(parse_result.loops) >= 4
    /\ \E i \in DOMAIN parse_result.loops :
          parse_result.loops[i].loop = "argument_list" /\ parse_result.loops[i].ok

====
